---- MODULE Spec2Model ----
(***************************************************************************)
(* Session execution and health monitoring of vibe:                        *)
(*   vibe/session.py          WorkflowFrame, WorkflowSession, SessionManager*)
(*   vibe/orchestrator.py     the session API of WorkflowOrchestrator       *)
(*   vibe/session_monitor.py  SessionMonitor                                *)
(*                                                                         *)
(* The specifications share the variables below:                           *)
(*   Spec       one in-memory WorkflowSession and its cursor operations     *)
(*   SpecStore  the session store and the orchestrator's session API        *)
(*   SpecFiles, SpecCleanup  session files that are saved, loaded, damaged  *)
(*              and cleaned up                                              *)
(*   SpecAccess a caller's session next to the orchestrator's reads         *)
(*   SpecMonitor  SessionMonitor.check_session_health over the store, with  *)
(*              a clock that runs for hours                                 *)
(*   SpecText, SpecPhrases  SessionMonitor.analyze_agent_response on        *)
(*              response texts                                              *)
(*   SpecReport, SpecReadOnly  the monitor's summaries and messages         *)
(*   SpecRace   two advance_session invocations whose steps interleave      *)
(* Time is an integer number of minutes.  A step text and a response text   *)
(* are sequences of words (the text is the words joined by single spaces).  *)
(***************************************************************************)
EXTENDS Integers, Sequences, FiniteSets, TLC

VARIABLES
    now,        \* the wall clock, datetime.now(), in minutes
    session,    \* Spec: the in-memory WorkflowSession
    op,         \* the operation that ran last
    arg,        \* SpecStore, SpecMonitor: the session id it was called with
    result,     \* what that operation returned
    initial,    \* Spec: while pure, the arguments create() was called with
    pure,       \* Spec: only advance_step() has run since create()
    advLog,     \* Spec: while pure, one entry per advance_step() made on a
                \* non-empty stack: what it returned and what the session
                \* showed afterwards (on an empty stack the call returns
                \* False and changes nothing, and is not logged)
    active,     \* SpecStore: session_dir/<id>.json, id -> document
    archive,    \* SpecStore: session_dir/archive/<id>.json, id -> document
    ticks,      \* SpecMonitor: how often the clock has moved
    history,    \* SpecText: SessionMonitor._response_history
    response,   \* SpecText: the text and session id analysed last
    calls       \* SpecRace: the invocations in flight, each with its position
                \* and the session it holds in memory

vars ==
    <<now, session, op, arg, result, initial, pure, advLog, active, archive, ticks,
      history, response, calls>>

sessionVars == <<session, initial, pure, advLog>>
storeVars == <<active, archive, arg, ticks>>
textVars == <<history, response, calls>>

----------------------------------------------------------------------------
(* Bounds of the model *)

MaxSteps == 2       \* steps of one workflow
MaxInit == 2        \* workflows handed to WorkflowSession.create
MaxDepth == 2       \* frames on a stack (push_workflow stops there)
MaxTime == 1        \* Spec, SpecStore: minutes the clock runs
MaxTicks == 2       \* SpecMonitor: times the clock moves
MaxResponses == 6   \* SpecText: responses analysed in one process

----------------------------------------------------------------------------
(* Values *)

\* Python's None.
None == [none |-> TRUE]

Min(a, b) == IF a < b THEN a ELSE b

WorkflowNames == {"A", "B"}

\* The step texts of the workflows, each a sequence of words: A has up to
\* three steps (the third a command), B at most one.
StepTexts ==
    [A |-> << <<"a1">>, <<"a2">>, <<"Git", "commit">> >>,
     B |-> << <<"b1">> >>]

\* The (workflow_name, steps) tuples a caller can hand in.
Catalogue ==
    UNION { { <<w, SubSeq(StepTexts[w], 1, n)>> :
                n \in 0..Min(MaxSteps, Len(StepTexts[w])) } : w \in WorkflowNames }

SeqsUpTo(S, n) == UNION { [1..k -> S] : k \in 0..n }

\* SessionConfig: ai_agent_prefix, ai_agent_suffix.
SessionConfig(prefix, suffix) == [ai_agent_prefix |-> prefix, ai_agent_suffix |-> suffix]

DefaultSessionConfig == SessionConfig(TRUE, TRUE)

\* The session_config arguments of create(): None, or a configuration.
ConfigInputs == {None, SessionConfig(FALSE, FALSE)}

\* A Python dict, as its set of (key, value) pairs.
Dict(items) == [dict |-> items]

EmptyDict == Dict({})

\* The context arguments of push_workflow(): None, {} or a one-key map.
ContextInputs == {None, EmptyDict, Dict({<<"k", "v">>})}

----------------------------------------------------------------------------
(* WorkflowFrame *)

WorkflowFrame(name, steps, cur, ctx) ==
    [workflow_name |-> name, steps |-> steps, current_step |-> cur, context |-> ctx]

WorkflowFrame_is_complete(f) == f.current_step >= Len(f.steps)

current_step_text(f) == IF WorkflowFrame_is_complete(f) THEN None ELSE f.steps[f.current_step + 1]

\* advance that moves the cursor of a complete frame too.
AdvanceUnguarded(f) == [frame |-> [f EXCEPT !.current_step = @ + 1], ret |-> TRUE]

\* WorkflowFrame.advance: the frame afterwards and the value returned.
advance(f) ==
    IF ~WorkflowFrame_is_complete(f)
    THEN [frame |-> [f EXCEPT !.current_step = @ + 1], ret |-> TRUE]
    ELSE [frame |-> f, ret |-> FALSE]

----------------------------------------------------------------------------
(* WorkflowSession *)

\* WorkflowSession.create: one frame per tuple, in input order; the id is the
\* caller's stand-in for str(uuid.uuid4())[:8].
create(id, prompt, initial_workflows, session_config, t) ==
    [session_id |-> id,
     prompt |-> prompt,
     workflow_stack |->
        [i \in 1..Len(initial_workflows) |->
            WorkflowFrame(initial_workflows[i][1], initial_workflows[i][2], 0, EmptyDict)],
     created_at |-> t,
     last_accessed |-> t,
     session_config |-> IF session_config = None THEN DefaultSessionConfig
                        ELSE session_config]

HasCurrentFrame(s) == Len(s.workflow_stack) > 0

\* WorkflowSession.current_frame, where there is one: the last frame.
current_frame(s) == s.workflow_stack[Len(s.workflow_stack)]

Pop(stack) == SubSeq(stack, 1, Len(stack) - 1)

\* A session that counts as complete only once its stack is empty.
SessionIsCompleteEmptyOnly(s) == Len(s.workflow_stack) = 0

is_complete(s) ==
    \/ Len(s.workflow_stack) = 0
    \/ \A i \in 1..Len(s.workflow_stack) : WorkflowFrame_is_complete(s.workflow_stack[i])

\* str.lower() on the words the step texts and the response texts use.
Lower(word) ==
    CASE word = "Git" -> "git"
      [] word = "Everything" -> "everything"
      [] word = "Final" -> "final"
      [] word = "I" -> "i"
      [] word = "In" -> "in"
      [] word = "Let" -> "let"
      [] word = "Run" -> "run"
      [] word = "That" -> "that"
      [] word = "The" -> "the"
      [] word = "This" -> "this"
      [] OTHER -> word

command_indicators ==
    {"run", "execute", "install", "npm", "pip", "git", "cd", "mkdir", "touch", "curl",
     "wget", "docker", "python", "node", "bun", "yarn", "pnpm", "cargo", "go", "rustc"}

\* _is_command_step: the stripped, lower-cased text starts with an indicator
\* and the space after it, so the indicator is the first word and another follows.
_is_command_step(text) ==
    /\ Len(text) >= 2
    /\ Lower(text[1]) \in command_indicators

CommandPrefix == <<"AUTO-VIBE: Execute without interaction. Use quiet/yes flags. Report outcome concisely.">>
GuidancePrefix == <<"AUTO-VIBE: Verify and report status briefly.">>
AgentSuffix == <<"Remember: Analyze, Reflect, Plan, Execute">>

\* _format_step_for_agent: the paragraphs of the formatted text (joined by a
\* blank line in the code); the bare text is the one paragraph <<text>>.
_format_step_for_agent(s, text, is_command) ==
    IF Len(text) = 0 THEN <<text>>
    ELSE (IF s.session_config.ai_agent_prefix
          THEN <<IF is_command THEN CommandPrefix ELSE GuidancePrefix>>
          ELSE <<>>)
         \o <<text>>
         \o (IF s.session_config.ai_agent_suffix THEN <<AgentSuffix>> ELSE <<>>)

\* get_current_step that describes the first frame of the stack, the
\* outermost workflow.
GetCurrentStepBottomFrame(s) ==
    IF ~HasCurrentFrame(s) THEN None
    ELSE IF WorkflowFrame_is_complete(s.workflow_stack[1]) THEN None
    ELSE LET f == s.workflow_stack[1]
             text == current_step_text(f)
         IN  [workflow |-> f.workflow_name,
              step_number |-> f.current_step + 1,
              total_steps |-> Len(f.steps),
              step_text |-> _format_step_for_agent(s, text, _is_command_step(text)),
              is_command |-> _is_command_step(text),
              workflow_depth |-> Len(s.workflow_stack)]

\* WorkflowSession.get_current_step.
get_current_step(s) ==
    IF ~HasCurrentFrame(s) THEN None
    ELSE IF WorkflowFrame_is_complete(current_frame(s)) THEN None
    ELSE LET f == current_frame(s)
             text == current_step_text(f)
         IN  [workflow |-> f.workflow_name,
              step_number |-> f.current_step + 1,
              total_steps |-> Len(f.steps),
              step_text |-> _format_step_for_agent(s, text, _is_command_step(text)),
              is_command |-> _is_command_step(text),
              workflow_depth |-> Len(s.workflow_stack)]

\* advance_step that reports "no more steps" whenever it pops a frame.
AdvanceStepPopIsEnd(s, t) ==
    IF ~HasCurrentFrame(s) THEN [session |-> s, ret |-> FALSE]
    ELSE LET n == Len(s.workflow_stack)
             adv == advance(current_frame(s))
         IN  IF adv.ret
             THEN [session |-> [s EXCEPT !.last_accessed = t,
                                         !.workflow_stack[n] = adv.frame],
                   ret |-> TRUE]
             ELSE [session |-> [s EXCEPT !.last_accessed = t,
                                         !.workflow_stack = Pop(@)],
                   ret |-> FALSE]

\* advance_step that never gives up the last frame: at the end of the last
\* workflow it leaves the stack as it is and reports a next step.
AdvanceStepKeepsLastFrame(s, t) ==
    IF ~HasCurrentFrame(s) THEN [session |-> s, ret |-> FALSE]
    ELSE LET n == Len(s.workflow_stack)
             adv == advance(current_frame(s))
         IN  IF adv.ret
             THEN [session |-> [s EXCEPT !.last_accessed = t,
                                         !.workflow_stack[n] = adv.frame],
                   ret |-> TRUE]
             ELSE IF n = 1
             THEN [session |-> [s EXCEPT !.last_accessed = t], ret |-> TRUE]
             ELSE [session |-> [s EXCEPT !.last_accessed = t,
                                         !.workflow_stack = Pop(@)],
                   ret |-> TRUE]

\* WorkflowSession.advance_step at time t: the session afterwards and the
\* value returned.
advance_step(s, t) ==
    IF ~HasCurrentFrame(s) THEN [session |-> s, ret |-> FALSE]
    ELSE LET n == Len(s.workflow_stack)
             adv == advance(current_frame(s))
         IN  IF adv.ret
             THEN [session |-> [s EXCEPT !.last_accessed = t,
                                         !.workflow_stack[n] = adv.frame],
                   ret |-> TRUE]
             ELSE [session |-> [s EXCEPT !.last_accessed = t,
                                         !.workflow_stack = Pop(@)],
                   ret |-> n - 1 > 0]

\* back_step that touches last_accessed before it looks at the cursor.
BackStepTouchesFirst(s, t) ==
    IF ~HasCurrentFrame(s) THEN [session |-> s, ret |-> FALSE]
    ELSE IF current_frame(s).current_step <= 0
    THEN [session |-> [s EXCEPT !.last_accessed = t], ret |-> FALSE]
    ELSE [session |-> [s EXCEPT !.workflow_stack[Len(s.workflow_stack)].current_step = @ - 1,
                                !.last_accessed = t],
          ret |-> TRUE]

\* WorkflowSession.back_step.
back_step(s, t) ==
    IF ~HasCurrentFrame(s) THEN [session |-> s, ret |-> FALSE]
    ELSE IF current_frame(s).current_step <= 0 THEN [session |-> s, ret |-> FALSE]
    ELSE [session |-> [s EXCEPT !.workflow_stack[Len(s.workflow_stack)].current_step = @ - 1,
                                !.last_accessed = t],
          ret |-> TRUE]

\* restart_session that also makes the session as young as a new one.
RestartSessionResetsAge(s, t) ==
    [session |-> [s EXCEPT !.workflow_stack =
                                [i \in 1..Len(@) |-> [@[i] EXCEPT !.current_step = 0]],
                           !.created_at = t,
                           !.last_accessed = t],
     ret |-> None]

\* restart_session that resets the current frame only.
RestartSessionTopOnly(s, t) ==
    [session |-> [s EXCEPT !.workflow_stack =
                                [i \in 1..Len(@) |->
                                    IF i = Len(@) THEN [@[i] EXCEPT !.current_step = 0]
                                    ELSE @[i]],
                           !.last_accessed = t],
     ret |-> None]

\* WorkflowSession.restart_session (returns nothing).
restart_session(s, t) ==
    [session |-> [s EXCEPT !.workflow_stack =
                                [i \in 1..Len(@) |-> [@[i] EXCEPT !.current_step = 0]],
                           !.last_accessed = t],
     ret |-> None]

\* break_workflow that drops the bottom frame and keeps the current one.
BreakWorkflowPopsBottom(s, t) ==
    IF Len(s.workflow_stack) <= 1 THEN [session |-> s, ret |-> FALSE]
    ELSE [session |-> [s EXCEPT !.last_accessed = t, !.workflow_stack = Tail(@)],
          ret |-> TRUE]

\* break_workflow that needs only one frame to pop.
BreakWorkflowLastFrame(s, t) ==
    IF Len(s.workflow_stack) < 1 THEN [session |-> s, ret |-> FALSE]
    ELSE [session |-> [s EXCEPT !.last_accessed = t, !.workflow_stack = Pop(@)],
          ret |-> TRUE]

\* WorkflowSession.break_workflow.
break_workflow(s, t) ==
    IF Len(s.workflow_stack) <= 1 THEN [session |-> s, ret |-> FALSE]
    ELSE [session |-> [s EXCEPT !.last_accessed = t, !.workflow_stack = Pop(@)],
          ret |-> TRUE]

\* push_workflow that leaves last_accessed alone.
PushWorkflowKeepsAccess(s, name, steps, context, t) ==
    [session |-> [s EXCEPT !.workflow_stack =
                                Append(@, WorkflowFrame(name, steps, 0,
                                            IF context = None THEN EmptyDict
                                            ELSE IF context = EmptyDict THEN EmptyDict
                                            ELSE context))],
     ret |-> None]

\* push_workflow that puts the new frame under the frames already there.
PushWorkflowAtBottom(s, name, steps, context, t) ==
    [session |-> [s EXCEPT !.workflow_stack =
                                <<WorkflowFrame(name, steps, 0,
                                            IF context = None THEN EmptyDict
                                            ELSE IF context = EmptyDict THEN EmptyDict
                                            ELSE context)>> \o @,
                           !.last_accessed = t],
     ret |-> None]

\* WorkflowSession.push_workflow (returns nothing).
push_workflow(s, name, steps, context, t) ==
    [session |-> [s EXCEPT !.workflow_stack =
                                Append(@, WorkflowFrame(name, steps, 0,
                                            IF context = None THEN EmptyDict
                                            ELSE IF context = EmptyDict THEN EmptyDict
                                            ELSE context)),
                           !.last_accessed = t],
     ret |-> None]

----------------------------------------------------------------------------
(* Serialization *)

\* An exception leaving a call.
Raises(e) == [raises |-> e]

IsRaise(x) == "raises" \in DOMAIN x

\* datetime.isoformat, and datetime.fromisoformat, which raises ValueError for
\* a string that is no ISO timestamp.
isoformat(t) == [iso |-> t]

IsIso(str) == "iso" \in DOMAIN str

fromisoformat(str) == IF IsIso(str) THEN str.iso ELSE Raises("ValueError")

\* WorkflowSession.to_dict: asdict() of every frame, ISO timestamps,
\* model_dump() of the configuration.
to_dict(s) ==
    [session_id |-> s.session_id,
     prompt |-> s.prompt,
     workflow_stack |-> s.workflow_stack,
     created_at |-> isoformat(s.created_at),
     last_accessed |-> isoformat(s.last_accessed),
     session_config |-> IF s.session_config = None THEN None ELSE s.session_config]

\* A JSON value that is not an object (a list, a string, a number, null).
NotAnObject == [root |-> "list"]

IsObject(data) == "root" \notin DOMAIN data

\* The fields of the WorkflowFrame dataclass, the keywords its constructor takes.
FrameKeys == {"workflow_name", "steps", "current_step", "context"}

\* The keys from_dict subscripts; "session_config" may be absent.
RequiredKeys == {"session_id", "prompt", "workflow_stack", "created_at", "last_accessed"}

\* from_dict that forgets the stored configuration.
FromDictDefaultConfig(data) ==
    IF ~IsObject(data) THEN Raises("TypeError")
    ELSE IF "workflow_stack" \notin DOMAIN data THEN Raises("KeyError")
    ELSE IF \E i \in 1..Len(data.workflow_stack) : DOMAIN data.workflow_stack[i] # FrameKeys
         THEN Raises("TypeError")
    ELSE IF RequiredKeys \ DOMAIN data # {} THEN Raises("KeyError")
    ELSE IF ~IsIso(data.created_at) \/ ~IsIso(data.last_accessed)
         THEN Raises("ValueError")
    ELSE [session_id |-> data.session_id,
          prompt |-> data.prompt,
          workflow_stack |-> data.workflow_stack,
          created_at |-> fromisoformat(data.created_at),
          last_accessed |-> fromisoformat(data.last_accessed),
          session_config |-> DefaultSessionConfig]

\* WorkflowSession.from_dict: the session, or the exception that leaves it.
\* data["workflow_stack"] and WorkflowFrame(**frame_data) come first, then the
\* keyword arguments of cls(...) in their order.
from_dict(data) ==
    IF ~IsObject(data) THEN Raises("TypeError")
    ELSE IF "workflow_stack" \notin DOMAIN data THEN Raises("KeyError")
    ELSE IF \E i \in 1..Len(data.workflow_stack) : DOMAIN data.workflow_stack[i] # FrameKeys
         THEN Raises("TypeError")
    ELSE IF RequiredKeys \ DOMAIN data # {} THEN Raises("KeyError")
    ELSE IF ~IsIso(data.created_at) \/ ~IsIso(data.last_accessed)
         THEN Raises("ValueError")
    ELSE [session_id |-> data.session_id,
          prompt |-> data.prompt,
          workflow_stack |-> data.workflow_stack,
          created_at |-> fromisoformat(data.created_at),
          last_accessed |-> fromisoformat(data.last_accessed),
          session_config |-> IF "session_config" \notin DOMAIN data THEN DefaultSessionConfig
                             ELSE IF data.session_config = None THEN DefaultSessionConfig
                             ELSE data.session_config]

----------------------------------------------------------------------------
(* SessionManager: the active directory and its archive/ subdirectory *)

SessionIds == {"s1", "s2"}

\* No file of that name.
NoFile == [nofile |-> TRUE]

\* A file json.load() rejects.
InvalidJson == [invalid_json |-> TRUE]

EmptyDir == [id \in SessionIds |-> NoFile]

Exists(dir, id) == dir[id] # NoFile

\* json.load of a file's content.
json_load(file) == IF file = InvalidJson THEN Raises("JSONDecodeError") ELSE file

\* The exceptions load_session and cleanup_old_sessions catch.
Caught == {"JSONDecodeError", "KeyError", "ValueError"}

\* load_session that falls back on the archive when the session directory
\* has no file of that id.
LoadSessionFromArchive(dir, id) ==
    IF ~Exists(dir, id) /\ ~Exists(archive, id) THEN None
    ELSE LET data == json_load(IF Exists(dir, id) THEN dir[id] ELSE archive[id])
             loaded == IF IsRaise(data) THEN data ELSE from_dict(data)
         IN  IF IsRaise(loaded) /\ loaded.raises \in Caught THEN None ELSE loaded

\* SessionManager.load_session: None for no file and for a caught exception;
\* any other exception leaves the call.
load_session(dir, id) ==
    IF ~Exists(dir, id) THEN None
    ELSE LET data == json_load(dir[id])
             loaded == IF IsRaise(data) THEN data ELSE from_dict(data)
         IN  IF IsRaise(loaded) /\ loaded.raises \in Caught THEN None ELSE loaded

\* _save_session that writes a document only where there is none yet.
SaveSessionFirstWrite(dir, s) ==
    IF Exists(dir, s.session_id) THEN dir
    ELSE [dir EXCEPT ![s.session_id] = to_dict(s)]

\* SessionManager._save_session: the whole document is overwritten.
_save_session(dir, s) == [dir EXCEPT ![s.session_id] = to_dict(s)]

\* archive_session that copies the file instead of moving it.
ArchiveSessionCopies(act, arch, id) ==
    IF ~Exists(act, id) THEN [active |-> act, archive |-> arch, ret |-> FALSE]
    ELSE [active |-> act, archive |-> [arch EXCEPT ![id] = act[id]], ret |-> TRUE]

\* SessionManager.archive_session: rename into archive/.
archive_session(act, arch, id) ==
    IF ~Exists(act, id) THEN [active |-> act, archive |-> arch, ret |-> FALSE]
    ELSE [active |-> [act EXCEPT ![id] = NoFile],
          archive |-> [arch EXCEPT ![id] = act[id]],
          ret |-> TRUE]

\* SessionManager.list_active_sessions, as a set: glob() gives no order.
list_active_sessions(act) == {id \in SessionIds : Exists(act, id)}

\* The orders in which glob() can list the files of S.
Orderings(S) ==
    {seq \in [1..Cardinality(S) -> S] : \A i, j \in 1..Cardinality(S) : i # j => seq[i] # seq[j]}

----------------------------------------------------------------------------
(* WorkflowOrchestrator: the session API *)

Range(seq) == {seq[i] : i \in 1..Len(seq)}

priority_order ==
    <<"mcp", "analysis", "implementation", "quality", "testing", "documentation",
      "git", "session">>

RECURSIVE AppendMissing(_, _, _)
AppendMissing(ordered, workflows, i) ==
    IF i > Len(workflows) THEN ordered
    ELSE AppendMissing(IF workflows[i] \in Range(ordered) THEN ordered
                       ELSE Append(ordered, workflows[i]),
                       workflows, i + 1)

\* _plan_execution_order: the listed workflows in priority order, then the rest.
_plan_execution_order(workflows) ==
    AppendMissing(SelectSeq(priority_order, LAMBDA p : p \in Range(workflows)), workflows, 1)

\* The workflows the registry knows, with their steps.
WorkflowRegistry ==
    [analysis |-> << <<"a1">>, <<"a2">> >>,
     git |-> << <<"b1">> >>]

\* _get_workflow_steps answers None for a workflow nobody defines, and
\* start_session drops a workflow whose steps are None or empty.
HasSteps(name) ==
    /\ name \in DOMAIN WorkflowRegistry
    /\ WorkflowRegistry[name] # <<>>

RECURSIVE workflow_steps(_, _)
\* start_session's loop: (name, steps) of every planned workflow that has steps.
workflow_steps(order, i) ==
    IF i > Len(order) THEN <<>>
    ELSE (IF HasSteps(order[i]) THEN << <<order[i], WorkflowRegistry[order[i]]>> >> ELSE <<>>)
         \o workflow_steps(order, i + 1)

\* What PromptAnalyzer.analyze can answer for a prompt.
AnalyzerOutputs == {<<>>, <<"custom">>, <<"git">>, <<"git", "analysis">>}

StackNames(s) == [i \in 1..Len(s.workflow_stack) |-> s.workflow_stack[i].workflow_name]

\* A not-found record that leaves the id out of its message.
NotFoundUnnamed(id) == [success |-> FALSE, error |-> <<"Session", "not found">>]

NotFound(id) == [success |-> FALSE, error |-> <<"Session", id, "not found">>]

Failure(msg) == [success |-> FALSE, error |-> msg]

\* A session id no document carries yet: str(uuid.uuid4())[:8].
FreshIds == {id \in SessionIds : ~Exists(active, id) /\ ~Exists(archive, id)}

\* orchestrator.start_session(prompt), the analyzer answering from `outputs`.
StartSessionFrom(outputs) ==
    \E names \in outputs, id \in FreshIds :
        LET planned == workflow_steps(_plan_execution_order(names), 1)
            s == create(id, "p", planned, None, now)
        IN  /\ op' = "start_session"
            /\ arg' = None
            /\ IF names = <<>>
               THEN /\ result' = Failure(<<"No workflows identified for the given prompt">>)
                    /\ UNCHANGED <<active, archive>>
               ELSE IF planned = <<>>
               THEN /\ result' = Failure(<<"No valid workflows found with steps">>)
                    /\ UNCHANGED <<active, archive>>
               ELSE /\ active' = _save_session(active, s)
                    /\ result' = [success |-> TRUE,
                                  session_id |-> id,
                                  current_step |-> get_current_step(s),
                                  workflow_stack |-> StackNames(s),
                                  total_workflows |-> Len(s.workflow_stack)]
                    /\ UNCHANGED archive
            /\ UNCHANGED <<now, ticks, sessionVars, textVars>>

start_session == StartSessionFrom(AnalyzerOutputs)

\* orchestrator.get_session_status(session_id)
get_session_status ==
    \E id \in SessionIds :
        LET s == load_session(active, id)
        IN  /\ op' = "get_session_status"
            /\ arg' = id
            /\ result' = IF s = None THEN NotFound(id)
                         ELSE [success |-> TRUE,
                               session_id |-> s.session_id,
                               current_step |-> get_current_step(s),
                               workflow_stack |-> StackNames(s),
                               is_complete |-> is_complete(s),
                               created_at |-> isoformat(s.created_at),
                               last_accessed |-> isoformat(s.last_accessed)]
            /\ UNCHANGED <<now, ticks, active, archive, sessionVars, textVars>>

\* orchestrator.advance_session(session_id)
advance_session ==
    \E id \in SessionIds :
        LET s == load_session(active, id)
            r == advance_step(s, now)
        IN  /\ op' = "advance_session"
            /\ arg' = id
            /\ IF s = None
               THEN /\ result' = NotFound(id)
                    /\ UNCHANGED <<active, archive>>
               ELSE IF r.ret
               THEN /\ active' = _save_session(active, r.session)
                    /\ UNCHANGED archive
                    /\ result' = [success |-> TRUE,
                                  session_id |-> id,
                                  current_step |-> get_current_step(r.session),
                                  workflow_stack |-> StackNames(r.session),
                                  has_next |-> TRUE]
               ELSE /\ active' = archive_session(active, archive, id).active
                    /\ archive' = archive_session(active, archive, id).archive
                    /\ result' = [success |-> TRUE,
                                  session_id |-> id,
                                  current_step |-> None,
                                  workflow_stack |-> <<>>,
                                  has_next |-> FALSE]
            /\ UNCHANGED <<now, ticks, sessionVars, textVars>>

\* orchestrator.break_session(session_id)
break_session ==
    \E id \in SessionIds :
        LET s == load_session(active, id)
            r == break_workflow(s, now)
        IN  /\ op' = "break_session"
            /\ arg' = id
            /\ IF s = None
               THEN /\ result' = NotFound(id)
                    /\ UNCHANGED <<active, archive>>
               ELSE IF r.ret
               THEN /\ active' = _save_session(active, r.session)
                    /\ UNCHANGED archive
                    /\ result' = [success |-> TRUE,
                                  session_id |-> id,
                                  current_step |-> get_current_step(r.session),
                                  workflow_stack |-> StackNames(r.session)]
               ELSE /\ active' = archive_session(active, archive, id).active
                    /\ archive' = archive_session(active, archive, id).archive
                    /\ result' = [success |-> TRUE,
                                  session_id |-> id,
                                  current_step |-> None,
                                  workflow_stack |-> <<>>]
            /\ UNCHANGED <<now, ticks, sessionVars, textVars>>

\* orchestrator.back_session(session_id)
back_session ==
    \E id \in SessionIds :
        LET s == load_session(active, id)
            r == back_step(s, now)
        IN  /\ op' = "back_session"
            /\ arg' = id
            /\ IF s = None
               THEN /\ result' = NotFound(id)
                    /\ UNCHANGED <<active, archive>>
               ELSE IF r.ret
               THEN /\ active' = _save_session(active, r.session)
                    /\ UNCHANGED archive
                    /\ result' = [success |-> TRUE,
                                  session_id |-> id,
                                  current_step |-> get_current_step(r.session),
                                  workflow_stack |-> StackNames(r.session)]
               ELSE /\ result' = [success |-> FALSE,
                                  error |-> <<"Cannot go back - already at first step">>,
                                  session_id |-> id]
                    /\ UNCHANGED <<active, archive>>
            /\ UNCHANGED <<now, ticks, sessionVars, textVars>>

\* orchestrator.restart_session(session_id)
orchestrator_restart_session ==
    \E id \in SessionIds :
        LET s == load_session(active, id)
            r == restart_session(s, now)
        IN  /\ op' = "restart_session"
            /\ arg' = id
            /\ IF s = None
               THEN /\ result' = NotFound(id)
                    /\ UNCHANGED <<active, archive>>
               ELSE /\ active' = _save_session(active, r.session)
                    /\ UNCHANGED archive
                    /\ result' = [success |-> TRUE,
                                  session_id |-> id,
                                  current_step |-> get_current_step(r.session),
                                  workflow_stack |-> StackNames(r.session)]
            /\ UNCHANGED <<now, ticks, sessionVars, textVars>>

\* session_manager.archive_session(session_id)
DoArchiveSession ==
    \E id \in SessionIds :
        LET r == archive_session(active, archive, id)
        IN  /\ op' = "archive_session"
            /\ arg' = id
            /\ active' = r.active
            /\ archive' = r.archive
            /\ result' = r.ret
            /\ UNCHANGED <<now, ticks, sessionVars, textVars>>

----------------------------------------------------------------------------
(* SpecStore: the store, empty at first, under the orchestrator's calls *)

\* No invocation is in flight.
NoCalls == <<>>

InitText ==
    /\ history = [id \in SessionIds |-> <<>>]
    /\ response = [n |-> 0]
    /\ calls = NoCalls

InitIdle ==
    /\ active = EmptyDir
    /\ archive = EmptyDir
    /\ arg = None
    /\ ticks = 0
    /\ InitText

InitSession ==
    /\ session = None
    /\ initial = None
    /\ pure = FALSE
    /\ advLog = <<>>

InitStore ==
    /\ now = 0
    /\ op = "init"
    /\ result = None
    /\ InitSession
    /\ InitIdle

StoreTick ==
    /\ now < MaxTime
    /\ now' = now + 1
    /\ op' = "tick"
    /\ arg' = None
    /\ result' = None
    /\ UNCHANGED <<active, archive, ticks, sessionVars, textVars>>

NextStore ==
    \/ StoreTick
    \/ start_session
    \/ get_session_status
    \/ advance_session
    \/ break_session
    \/ back_session
    \/ orchestrator_restart_session
    \/ DoArchiveSession

SpecStore == InitStore /\ [][NextStore]_vars

----------------------------------------------------------------------------
(* Claims about the store and the orchestrator (SpecStore) *)

\* C3: advance_session never leaves a complete session in the active
\* directory: once it has returned, a session whose frames are all complete
\* has been moved to the archive.
C3_CompleteIsArchived ==
    (op = "advance_session" /\ result.success) =>
        LET s == load_session(active, arg)
        IN  s # None => ~is_complete(s)

\* C8: archive_session(id) on an existing active document returns true and
\* moves it unchanged into the archive, after which load_session(id) is None
\* and id is not listed as active; with no active document it returns false
\* and changes nothing.
C8_ArchiveSessionEffect ==
    [][op' = "archive_session" =>
        LET id == arg'
        IN  IF Exists(active, id)
            THEN /\ result' = TRUE
                 /\ archive'[id] = active[id]
                 /\ ~Exists(active', id)
                 /\ load_session(active', id) = None
                 /\ id \notin list_active_sessions(active')
                 /\ \A o \in SessionIds \ {id} :
                        active'[o] = active[o] /\ archive'[o] = archive[o]
            ELSE /\ result' = FALSE
                 /\ active' = active
                 /\ archive' = archive
    ]_vars

\* archive_session has just moved a session that still had steps to do.
C8_Witness ==
    /\ op = "archive_session"
    /\ result = TRUE
    /\ ~Exists(active, arg)
    /\ Exists(archive, arg)
    /\ ~is_complete(load_session(archive, arg))

\* The session operations of the orchestrator that take a session id.
SessionCalls ==
    {"get_session_status", "advance_session", "break_session", "back_session",
     "restart_session"}

\* C15: for an id with no active document (never created, or archived
\* already), get_session_status, advance_session, break_session, back_session
\* and restart_session each return {success: false, error: "Session <id> not
\* found"} and leave the active and the archive partition as they were.
C15_NotFound ==
    [][(op' \in SessionCalls /\ ~Exists(active, arg')) =>
            /\ result' = [success |-> FALSE, error |-> <<"Session", arg', "not found">>]
            /\ active' = active
            /\ archive' = archive
    ]_vars

\* Stepping back was asked of a session that is in the archive, next to a
\* session that is still active.
C15_Witness ==
    /\ op = "back_session"
    /\ result = [success |-> FALSE, error |-> <<"Session", arg, "not found">>]
    /\ Exists(archive, arg)
    /\ ~Exists(active, arg)
    /\ \E other \in SessionIds : Exists(active, other)

\* C29: start_session hands out steps workflow by workflow in the order
\* _plan_execution_order gives: the current_step it returns is step 1 of the
\* first planned workflow, and a later workflow's steps come only after the
\* earlier workflows are finished or popped.
C29_PlannedOrderFirst ==
    (op = "start_session" /\ result.success) =>
        /\ result.current_step # None
        /\ result.current_step.workflow = result.workflow_stack[1]
        /\ result.current_step.step_number = 1

\* C30: a successful advance_session(id) returns has_next true with a
\* current_step that is not null, or has_next false with current_step null,
\* an empty workflow_stack and the session moved to the archive.
C30_AdvanceSessionResult ==
    (op = "advance_session" /\ result.success) =>
        IF result.has_next
        THEN result.current_step # None
        ELSE /\ result.current_step = None
             /\ result.workflow_stack = <<>>
             /\ ~Exists(active, arg)
             /\ Exists(archive, arg)

\* The operations that can report success and leave the session active.
MutatingOps ==
    {"start_session", "advance_session", "back_session", "break_session", "restart_session"}

\* C35: after start_session, advance_session, back_session, break_session or
\* restart_session reported success and left the session active, a
\* get_session_status(id) that follows immediately returns the current_step
\* and the workflow_stack names of that result.
C35_StatusTracksResult ==
    [][(/\ op' = "get_session_status"
        /\ op \in MutatingOps
        /\ result.success
        /\ result.session_id = arg'
        /\ Exists(active, arg')) =>
            /\ result'.success
            /\ result'.current_step = result.current_step
            /\ result'.workflow_stack = result.workflow_stack
    ]_vars

\* get_session_status reports the second step of a workflow, which only a
\* saved advance_session can have produced, on a session touched after its
\* creation.
C35_Witness ==
    /\ op = "get_session_status"
    /\ result.success
    /\ result.current_step # None
    /\ result.current_step.step_number = 2
    /\ result.last_accessed # result.created_at

\* C16: back_session(id) with the top frame at its first step, and
\* break_session(id) with a single frame left, each return a {success: false,
\* error: ...} record and leave the document unchanged in the active partition.
C16_InvalidTransitionRefused ==
    [][(/\ op' \in {"back_session", "break_session"}
        /\ Exists(active, arg')
        /\ LET s == load_session(active, arg')
           IN  \/ /\ op' = "back_session"
                  /\ HasCurrentFrame(s)
                  /\ current_frame(s).current_step = 0
               \/ /\ op' = "break_session"
                  /\ Len(s.workflow_stack) = 1) =>
            /\ result'.success = FALSE
            /\ active' = active
            /\ archive' = archive
    ]_vars

----------------------------------------------------------------------------
(* SpecFiles: a SessionManager on an empty directory, a session with a       *)
(* two-level stack in memory, and files of the directory overwritten from    *)
(* outside                                                                   *)

\* The two-level sessions a process can hold: two frames made by create() or
\* push_workflow(), each cursor anywhere from 0 to len(steps).
StackedParams ==
    {p \in [lower : Catalogue, upper : Catalogue,
            lower_step : 0..MaxSteps, upper_step : 0..MaxSteps,
            context : {EmptyDict, Dict({<<"k", "v">>})},
            session_config : {DefaultSessionConfig, SessionConfig(FALSE, FALSE)},
            last_accessed : 0..MaxTime] :
        /\ p.lower_step <= Len(p.lower[2])
        /\ p.upper_step <= Len(p.upper[2])}

StackedSession(p) ==
    [create("s1", "p", <<p.lower, p.upper>>, p.session_config, 0)
        EXCEPT !.workflow_stack[1].current_step = p.lower_step,
               !.workflow_stack[2].current_step = p.upper_step,
               !.workflow_stack[2].context = p.context,
               !.last_accessed = p.last_accessed]

InitFiles ==
    /\ now = MaxTime
    /\ op = "init"
    /\ result = None
    /\ \E p \in StackedParams : session = StackedSession(p)
    /\ initial = None
    /\ pure = FALSE
    /\ advLog = <<>>
    /\ InitIdle

\* A string that datetime.fromisoformat rejects.
NotIso == [not_iso |-> TRUE]

DropKey(rec, k) == [x \in DOMAIN rec \ {k} |-> rec[x]]

\* File contents that do not deserialize, made from a document: text that is
\* no JSON, a root that is no object, a missing top-level key, a bad
\* timestamp, a frame with keys missing, a frame with a key too many.
Corruptions(doc) ==
    {InvalidJson,
     NotAnObject,
     DropKey(doc, "prompt"),
     [doc EXCEPT !.created_at = NotIso],
     [doc EXCEPT !.workflow_stack = <<[workflow_name |-> "A"]>>],
     [doc EXCEPT !.workflow_stack =
        <<[workflow_name |-> "A", steps |-> <<>>, current_step |-> 0,
           context |-> EmptyDict, extra |-> 0]>>]}

\* session_manager.save_session(session)
DoSaveSession ==
    /\ active' = _save_session(active, session)
    /\ arg' = session.session_id
    /\ result' = None
    /\ op' = "save_session"
    /\ UNCHANGED <<now, archive, ticks, sessionVars, textVars>>

\* session_manager.load_session(session_id)
DoLoadSession ==
    /\ \E id \in SessionIds :
            /\ result' = load_session(active, id)
            /\ arg' = id
    /\ op' = "load_session"
    /\ UNCHANGED <<now, active, archive, ticks, sessionVars, textVars>>

\* Something else writes one of files into the session directory, as ids.
CorruptFrom(ids, files) ==
    /\ \E id \in ids, file \in files :
            /\ active' = [active EXCEPT ![id] = file]
            /\ arg' = id
    /\ result' = None
    /\ op' = "corrupt_file"
    /\ UNCHANGED <<now, archive, ticks, sessionVars, textVars>>

DoCorruptFile == CorruptFrom(SessionIds, Corruptions(to_dict(session)))

NextFiles ==
    \/ DoSaveSession
    \/ DoLoadSession
    \/ DoCorruptFile

SpecFiles == InitFiles /\ [][NextFiles]_vars

----------------------------------------------------------------------------
(* Claims about serialization and loading (SpecFiles) *)

\* C12: for a session with a two-level stack, from_dict(to_dict(s)) equals s
\* in every field, and load_session(s.session_id) right after save_session(s)
\* returns a session equal to s, whatever the cursors, the context, the
\* timestamps and the session_config are.
C12_RoundTrip ==
    [][(op = "save_session" /\ op' = "load_session" /\ arg' = arg) =>
            /\ result' = session
            /\ from_dict(to_dict(session)) = session
    ]_vars

\* A session with a non-default configuration, two different cursors, a
\* context and a later last_accessed has come back from the directory.
C12_Witness ==
    /\ op = "load_session"
    /\ result = session
    /\ Len(session.workflow_stack) = 2
    /\ session.session_config = SessionConfig(FALSE, FALSE)
    /\ session.workflow_stack[1].current_step = 1
    /\ session.workflow_stack[2].current_step = 0
    /\ session.workflow_stack[1].workflow_name # session.workflow_stack[2].workflow_name
    /\ session.workflow_stack[2].context # EmptyDict
    /\ session.last_accessed > session.created_at

\* A file that json.load or from_dict does not turn into a session.
Undeserializable(file) == IsRaise(json_load(file)) \/ IsRaise(from_dict(file))

\* C17: load_session(id) returns None, raising nothing, when there is no
\* active document and whenever the document does not deserialize (invalid
\* JSON, missing top-level key, bad timestamp, root that is no object, frame
\* with missing or unexpected keys), and leaves the directory as it was.
C17_LoadSessionNeverRaises ==
    [][op' = "load_session" =>
            /\ active' = active
            /\ (~Exists(active, arg') \/ Undeserializable(active[arg'])) => result' = None
    ]_vars

----------------------------------------------------------------------------
(* SpecCleanup: sessions started at different times, session files damaged   *)
(* in place, a clock that moves by a minute or by a day, and                 *)
(* cleanup_old_sessions                                                      *)

MinutesPerDay == 1440

\* What cleanup_old_sessions does with one file: "unlink" it after a caught
\* exception, "rename" it into archive/, "keep" it, or let "TypeError" out.
ScanOutcome(file, max_age_days, t) ==
    LET data == json_load(file)
    IN  IF IsRaise(data) THEN "unlink"
        ELSE IF ~IsObject(data) THEN "TypeError"
        ELSE IF "last_accessed" \notin DOMAIN data THEN "unlink"
        ELSE IF ~IsIso(data.last_accessed) THEN "unlink"
        ELSE IF fromisoformat(data.last_accessed) < t - max_age_days * MinutesPerDay
             THEN "rename"
        ELSE "keep"

\* SessionManager.cleanup_old_sessions over the files in glob order: the two
\* directories afterwards, the count, and whether an exception left the call
\* (the files after the one that raised are not looked at).
RECURSIVE cleanup_old_sessions(_, _, _, _, _)
cleanup_old_sessions(act, arch, files, max_age_days, t) ==
    IF files = <<>> THEN [active |-> act, archive |-> arch, ret |-> 0, raised |-> FALSE]
    ELSE LET id == Head(files)
             outcome == ScanOutcome(act[id], max_age_days, t)
             act1 == IF outcome \in {"unlink", "rename"} THEN [act EXCEPT ![id] = NoFile] ELSE act
             arch1 == IF outcome = "rename" THEN [arch EXCEPT ![id] = act[id]] ELSE arch
             rest == cleanup_old_sessions(act1, arch1, Tail(files), max_age_days, t)
         IN  IF outcome = "TypeError"
             THEN [active |-> act, archive |-> arch, ret |-> 0, raised |-> TRUE]
             ELSE [rest EXCEPT !.ret = @ + (IF outcome = "keep" THEN 0 ELSE 1)]

\* The max_age_days arguments.
AgeInputs == {0, 1}

\* session_manager.cleanup_old_sessions(max_age_days)
DoCleanupOldSessions ==
    /\ \E days \in AgeInputs, files \in Orderings(list_active_sessions(active)) :
            LET r == cleanup_old_sessions(active, archive, files, days, now)
            IN  /\ active' = r.active
                /\ archive' = r.archive
                /\ result' = IF r.raised THEN Raises("TypeError") ELSE [count |-> r.ret]
                /\ arg' = [max_age_days |-> days]
    /\ op' = "cleanup_old_sessions"
    /\ UNCHANGED <<now, ticks, sessionVars, textVars>>

CleanupSteps == {1, MinutesPerDay}

CleanupTick ==
    /\ ticks < MaxTicks
    /\ \E d \in CleanupSteps : now' = now + d
    /\ ticks' = ticks + 1
    /\ op' = "tick"
    /\ arg' = None
    /\ result' = None
    /\ UNCHANGED <<active, archive, sessionVars, textVars>>

CleanupStartSession == StartSessionFrom({<<"git">>})

\* The session documents in the directory that still deserialize.
SoundFiles ==
    {id \in SessionIds :
        /\ Exists(active, id)
        /\ load_session(active, id) # None
        /\ ~IsRaise(load_session(active, id))}

\* A session file is damaged in place.
DoDamageFile ==
    \E id \in SoundFiles : CorruptFrom({id}, Corruptions(active[id]))

NextCleanup ==
    \/ CleanupTick
    \/ CleanupStartSession
    \/ DoDamageFile
    \/ DoCleanupOldSessions

SpecCleanup == InitStore /\ [][NextCleanup]_vars

\* A file on which the scan of cleanup_old_sessions does not get to a
\* last_accessed timestamp.
ScanFails(file) ==
    \/ IsRaise(json_load(file))
    \/ ~IsObject(file)
    \/ "last_accessed" \notin DOMAIN file
    \/ ~IsIso(file.last_accessed)

\* C18: cleanup_old_sessions(max_age_days) moves every active document whose
\* last_accessed is earlier than now - max_age_days to the archive, deletes
\* every active document that fails to parse during the scan, leaves every
\* other active document unchanged, and returns the number archived plus the
\* number deleted.
C18_CleanupOldSessions ==
    [][op' = "cleanup_old_sessions" =>
        LET cutoff == now - arg'.max_age_days * MinutesPerDay
            present == list_active_sessions(active)
            failed == {id \in present : ScanFails(active[id])}
            old == {id \in present \ failed : fromisoformat(active[id].last_accessed) < cutoff}
        IN  /\ \A id \in old : ~Exists(active', id) /\ archive'[id] = active[id]
            /\ \A id \in failed : ~Exists(active', id) /\ archive'[id] = archive[id]
            /\ \A id \in SessionIds \ (old \cup failed) :
                    active'[id] = active[id] /\ archive'[id] = archive[id]
            /\ result' = [count |-> Cardinality(old) + Cardinality(failed)]
    ]_vars

\* C38: after cleanup_old_sessions has returned, load_session gives a
\* session, not null, for every document left in the active directory: the
\* scan deletes a document in exactly the cases in which load_session
\* returns null for it.
C38_RemainingLoadable ==
    (op = "cleanup_old_sessions" /\ ~IsRaise(result)) =>
        \A id \in list_active_sessions(active) :
            /\ load_session(active, id) # None
            /\ ~IsRaise(load_session(active, id))

----------------------------------------------------------------------------
(* SessionMonitor: health of the active sessions *)

dormant_threshold_minutes == 10
stale_threshold_minutes == 30
max_session_age_hours == 6

\* _get_active_sessions that keeps the sessions that are complete.
GetActiveSessionsComplete(act) ==
    {id \in list_active_sessions(act) : load_session(act, id) # None}

\* _get_active_sessions: the sessions that load and are not complete.
_get_active_sessions(act) ==
    {id \in list_active_sessions(act) :
        /\ load_session(act, id) # None
        /\ ~is_complete(load_session(act, id))}

\* A session counted as dormant from the threshold itself on.
IsSessionDormantAtThreshold(s, t) == s.last_accessed <= t - dormant_threshold_minutes

\* _is_session_dormant at time t.
_is_session_dormant(s, t) == s.last_accessed < t - dormant_threshold_minutes

\* _is_session_stale at time t.
_is_session_stale(s, t) == s.last_accessed < t - stale_threshold_minutes

\* _should_auto_archive that goes by inactivity, as _is_session_stale does.
ShouldAutoArchiveWhenStale(s, t) == s.last_accessed < t - stale_threshold_minutes

\* _should_auto_archive at time t.
_should_auto_archive(s, t) == s.created_at < t - max_session_age_hours * 60

\* _create_dormant_alert; the message carries the minutes of inactivity.
_create_dormant_alert(s, t) ==
    [session_id |-> s.session_id,
     alert_type |-> "dormant_session",
     message |-> <<"Session has been inactive for", t - s.last_accessed, "minutes">>,
     severity |-> "medium",
     timestamp |-> t]

\* _create_stale_alert
_create_stale_alert(s, t) ==
    [session_id |-> s.session_id,
     alert_type |-> "stale_session",
     message |-> <<"Session has been inactive for", t - s.last_accessed,
                   "minutes and may be abandoned">>,
     severity |-> "high",
     timestamp |-> t]

\* _create_archive_alert; the message carries the age (in minutes here).
_create_archive_alert(s, t) ==
    [session_id |-> s.session_id,
     alert_type |-> "auto_archive",
     message |-> <<"Session is", t - s.created_at, "minutes old and will be auto-archived">>,
     severity |-> "low",
     timestamp |-> t]

\* The body of check_session_health's loop for one session.
AlertsFor(s, t) ==
    (IF _is_session_dormant(s, t) THEN <<_create_dormant_alert(s, t)>> ELSE <<>>)
    \o (IF _is_session_stale(s, t) THEN <<_create_stale_alert(s, t)>> ELSE <<>>)
    \o (IF _should_auto_archive(s, t) THEN <<_create_archive_alert(s, t)>> ELSE <<>>)

RECURSIVE check_session_health(_, _, _)
\* check_session_health over the active sessions in the order `ids`.
check_session_health(act, ids, t) ==
    IF ids = <<>> THEN <<>>
    ELSE AlertsFor(load_session(act, Head(ids)), t) \o check_session_health(act, Tail(ids), t)

\* archive_session for each id of a list, in turn.
RECURSIVE ArchiveAll(_, _, _)
ArchiveAll(act, arch, ids) ==
    IF ids = <<>> THEN [active |-> act, archive |-> arch]
    ELSE LET r == archive_session(act, arch, Head(ids))
         IN  ArchiveAll(r.active, r.archive, Tail(ids))

\* cleanup_stale_sessions over the loaded sessions, in the order of ids: the
\* directories afterwards and the list returned.
cleanup_stale_sessions(act, arch, ids, t) ==
    LET cleaned == SelectSeq(ids, LAMBDA id : _should_auto_archive(load_session(act, id), t))
        r == ArchiveAll(act, arch, cleaned)
    IN  [active |-> r.active, archive |-> r.archive, ret |-> cleaned]

\* monitor.cleanup_stale_sessions(); the call is taken to read one clock value.
DoCleanupStaleSessions ==
    /\ \E ids \in Orderings(_get_active_sessions(active)) :
            LET r == cleanup_stale_sessions(active, archive, ids, now)
            IN  /\ active' = r.active
                /\ archive' = r.archive
                /\ result' = r.ret
    /\ op' = "cleanup_stale_sessions"
    /\ arg' = None
    /\ UNCHANGED <<now, ticks, sessionVars, textVars>>

\* monitor.check_session_health(); the call is taken to read one clock value.
DoCheckSessionHealth ==
    /\ \E ids \in Orderings(_get_active_sessions(active)) :
            result' = check_session_health(active, ids, now)
    /\ op' = "check_session_health"
    /\ arg' = None
    /\ UNCHANGED <<now, ticks, active, archive, sessionVars, textVars>>

----------------------------------------------------------------------------
(* SpecMonitor: one-step sessions, a clock that moves by a minute, by either *)
(* threshold or by the maximum age, and the health check                     *)

TickSteps ==
    {1, dormant_threshold_minutes, stale_threshold_minutes, max_session_age_hours * 60}

MonitorTick ==
    /\ ticks < MaxTicks
    /\ \E d \in TickSteps : now' = now + d
    /\ ticks' = ticks + 1
    /\ op' = "tick"
    /\ arg' = None
    /\ result' = None
    /\ UNCHANGED <<active, archive, sessionVars, textVars>>

MonitorStartSession == StartSessionFrom({<<"git">>})

NextMonitor ==
    \/ MonitorTick
    \/ MonitorStartSession
    \/ advance_session
    \/ DoCheckSessionHealth
    \/ DoCleanupStaleSessions

SpecMonitor == InitStore /\ [][NextMonitor]_vars

----------------------------------------------------------------------------
(* Claims about the health check (SpecMonitor) *)

\* The alerts of one type that a health check gave for one session.
AlertsOf(alerts, id, type) ==
    {i \in 1..Len(alerts) : alerts[i].session_id = id /\ alerts[i].alert_type = type}

\* C9: for every active session that is not complete, check_session_health
\* gives one dormant_session alert (medium) iff now - last_accessed > 10
\* minutes and one stale_session alert (high) iff now - last_accessed > 30
\* minutes, so a session with a stale alert has its own dormant alert too.
C9_DormantStaleClassification ==
    op = "check_session_health" =>
        \A id \in _get_active_sessions(active) :
            LET s == load_session(active, id)
                dormant == AlertsOf(result, id, "dormant_session")
                stale == AlertsOf(result, id, "stale_session")
            IN  /\ Cardinality(dormant) = IF now - s.last_accessed > 10 THEN 1 ELSE 0
                /\ Cardinality(stale) = IF now - s.last_accessed > 30 THEN 1 ELSE 0
                /\ \A i \in dormant : result[i].severity = "medium"
                /\ \A i \in stale : result[i].severity = "high"
                /\ stale # {} => dormant # {}

\* A health check that gave one session both alerts, 31 minutes after its
\* last access.
C9_Witness ==
    /\ op = "check_session_health"
    /\ \E id \in _get_active_sessions(active) :
            /\ now - load_session(active, id).last_accessed = 31
            /\ AlertsOf(result, id, "dormant_session") # {}
            /\ AlertsOf(result, id, "stale_session") # {}

\* The minutes since a document's created_at.
AgeOf(doc, t) == t - fromisoformat(doc.created_at)

\* C19: cleanup_stale_sessions() archives every session of the active
\* partition whose age since created_at exceeds max_session_age_hours, one
\* with an empty stack or with all frames complete included, returns exactly
\* the ids it archived, and leaves no active session older than that.
C19_ArchivesEveryExpired ==
    [][op' = "cleanup_stale_sessions" =>
        LET expired == {id \in list_active_sessions(active) :
                            AgeOf(active[id], now) > max_session_age_hours * 60}
        IN  /\ \A id \in expired : ~Exists(active', id) /\ archive'[id] = active[id]
            /\ Range(result') = expired
            /\ \A id \in list_active_sessions(active') :
                    AgeOf(active'[id], now) <= max_session_age_hours * 60
    ]_vars

\* C20: cleanup_stale_sessions() never archives a session whose age since
\* created_at is at most max_session_age_hours, however long it has been
\* inactive, and changes the store only by moving whole documents from the
\* active partition to the archive: no document is edited.
C20_AgeBasedMoveOnly ==
    [][op' = "cleanup_stale_sessions" =>
        \A id \in SessionIds :
            /\ (Exists(active, id) /\ AgeOf(active[id], now) <= max_session_age_hours * 60) =>
                    active'[id] = active[id] /\ archive'[id] = archive[id]
            /\ (active'[id] # active[id] \/ archive'[id] # archive[id]) =>
                    /\ Exists(active, id)
                    /\ active'[id] = NoFile
                    /\ archive'[id] = active[id]
                    /\ id \in Range(result')
    ]_vars

\* One session was archived while another, exactly six hours old and
\* untouched for as long, which makes it stale, stayed where it was.
C20_Witness ==
    /\ op = "cleanup_stale_sessions"
    /\ Len(result) = 1
    /\ Exists(archive, result[1])
    /\ \E id \in list_active_sessions(active) :
            /\ AgeOf(active[id], now) = max_session_age_hours * 60
            /\ _is_session_stale(load_session(active, id), now)

----------------------------------------------------------------------------
(* SessionMonitor: agent responses *)

\* The letters of the lower-cased words of the response texts.
Chars ==
    [that |-> <<"t", "h", "a", "t">>,
     completes |-> <<"c", "o", "m", "p", "l", "e", "t", "e", "s">>,
     the |-> <<"t", "h", "e">>,
     implementation |-> <<"i", "m", "p", "l", "e", "m", "e", "n", "t", "a", "t", "i", "o", "n">>,
     system |-> <<"s", "y", "s", "t", "e", "m">>,
     is |-> <<"i", "s">>,
     ready |-> <<"r", "e", "a", "d", "y">>,
     task |-> <<"t", "a", "s", "k">>,
     i |-> <<"i">>,
     ll |-> <<"l", "l">>,
     use |-> <<"u", "s", "e">>,
     advance_workflow |-> <<"a", "d", "v", "a", "n", "c", "e", "_", "w", "o", "r", "k", "f", "l", "o", "w">>,
     to |-> <<"t", "o">>,
     move |-> <<"m", "o", "v", "e">>,
     next |-> <<"n", "e", "x", "t">>,
     step |-> <<"s", "t", "e", "p">>,
     m |-> <<"m">>,
     working |-> <<"w", "o", "r", "k", "i", "n", "g">>,
     on |-> <<"o", "n">>,
     implementing |-> <<"i", "m", "p", "l", "e", "m", "e", "n", "t", "i", "n", "g">>,
     feature |-> <<"f", "e", "a", "t", "u", "r", "e">>,
     everything |-> <<"e", "v", "e", "r", "y", "t", "h", "i", "n", "g">>,
     perfectly |-> <<"p", "e", "r", "f", "e", "c", "t", "l", "y">>,
     now |-> <<"n", "o", "w">>,
     this |-> <<"t", "h", "i", "s">>,
     concludes |-> <<"c", "o", "n", "c", "l", "u", "d", "e", "s">>,
     our |-> <<"o", "u", "r">>,
     work |-> <<"w", "o", "r", "k">>,
     let |-> <<"l", "e", "t">>,
     s |-> <<"s">>,
     continue |-> <<"c", "o", "n", "t", "i", "n", "u", "e">>,
     with |-> <<"w", "i", "t", "h">>,
     in |-> <<"i", "n">>,
     summary |-> <<"s", "u", "m", "m", "a", "r", "y">>,
     project |-> <<"p", "r", "o", "j", "e", "c", "t">>,
     for |-> <<"f", "o", "r">>,
     deployment |-> <<"d", "e", "p", "l", "o", "y", "m", "e", "n", "t">>,
     final |-> <<"f", "i", "n", "a", "l">>,
     tests |-> <<"t", "e", "s", "t", "s">>,
     are |-> <<"a", "r", "e">>,
     passing |-> <<"p", "a", "s", "s", "i", "n", "g">>,
     and |-> <<"a", "n", "d">>,
     looks |-> <<"l", "o", "o", "k", "s">>,
     good |-> <<"g", "o", "o", "d">>]

LowerText(text) == [i \in 1..Len(text) |-> Lower(text[i])]

\* completion_patterns, each alternative as the words it spells; between \b
\* and \b an alternative matches whole words only.
CompletionWords == {"summary", "conclusion", "final", "complete", "done", "finished", "ready"}

CompletionPhrases ==
    {<<"that", "should">>, <<"this", "completes">>, <<"we", "have">>, <<"i", "have">>,
     <<"in", "summary">>, <<"to", "summarize">>, <<"to", "conclude">>,
     <<"next", "step">>, <<"next", "steps">>, <<"follow", "up">>, <<"moving", "forward">>}

\* follow.?up inside one word: "followup", or "follow", one word character, "up".
CompletionFused == {"followup", "follow_up"}

\* completion_patterns without its first pattern, the single words.
HasCompletionPatternPhrasesOnly(text) ==
    LET low == LowerText(text)
    IN  \/ \E i \in 1..Len(low) : low[i] \in CompletionFused
        \/ \E i \in 1..Len(low) - 1 : <<low[i], low[i + 1]>> \in CompletionPhrases

\* _has_completion_pattern: re.search of any pattern in the lower-cased text.
_has_completion_pattern(text) ==
    LET low == LowerText(text)
    IN  \/ \E i \in 1..Len(low) : low[i] \in CompletionWords \cup CompletionFused
        \/ \E i \in 1..Len(low) - 1 : <<low[i], low[i + 1]>> \in CompletionPhrases

IsInfix(k, w) == \E i \in 1..Len(w) - Len(k) + 1 : SubSeq(w, i, i + Len(k) - 1) = k

StartsWith(w, k) == Len(k) <= Len(w) /\ SubSeq(w, 1, Len(k)) = k

EndsWith(w, k) == Len(k) <= Len(w) /\ SubSeq(w, Len(w) - Len(k) + 1, Len(w)) = k

Letters(str) ==
    CASE str = "advance_workflow" -> <<"a", "d", "v", "a", "n", "c", "e", "_", "w", "o", "r", "k", "f", "l", "o", "w">>
      [] str = "break_workflow" -> <<"b", "r", "e", "a", "k", "_", "w", "o", "r", "k", "f", "l", "o", "w">>
      [] str = "get_workflow_status" -> <<"g", "e", "t", "_", "w", "o", "r", "k", "f", "l", "o", "w", "_", "s", "t", "a", "t", "u", "s">>
      [] str = "list_workflow_sessions" -> <<"l", "i", "s", "t", "_", "w", "o", "r", "k", "f", "l", "o", "w", "_", "s", "e", "s", "s", "i", "o", "n", "s">>
      [] str = "workflow" -> <<"w", "o", "r", "k", "f", "l", "o", "w">>
      [] str = "status" -> <<"s", "t", "a", "t", "u", "s">>
      [] str = "next" -> <<"n", "e", "x", "t">>
      [] str = "step" -> <<"s", "t", "e", "p">>
      [] str = "continue" -> <<"c", "o", "n", "t", "i", "n", "u", "e">>
      [] str = "complete" -> <<"c", "o", "m", "p", "l", "e", "t", "e">>

\* workflow_keywords: the one-word keywords and the two-word ones.
KeywordWords ==
    {"advance_workflow", "break_workflow", "get_workflow_status", "list_workflow_sessions"}

KeywordPhrases ==
    {<<"workflow", "status">>, <<"next", "step">>, <<"continue", "workflow">>,
     <<"complete", "workflow">>}

\* _has_workflow_management: a keyword is a substring of the lower-cased text,
\* inside one word or across the space between two.
_has_workflow_management(text) ==
    LET low == LowerText(text)
    IN  \/ \E i \in 1..Len(low), k \in KeywordWords : IsInfix(Letters(k), Chars[low[i]])
        \/ \E i \in 1..Len(low) - 1, k \in KeywordPhrases :
                /\ EndsWith(Chars[low[i]], Letters(k[1]))
                /\ StartsWith(Chars[low[i + 1]], Letters(k[2]))

\* _create_forgotten_completion_alert
_create_forgotten_completion_alert(id, t) ==
    [session_id |-> id,
     alert_type |-> "forgotten_completion",
     message |-> <<"Agent provided completion-like response without managing workflow">>,
     severity |-> "high",
     timestamp |-> t]

\* The last n entries of a list: list[-n:].
LastN(list, n) == IF Len(list) <= n THEN list ELSE SubSeq(list, Len(list) - n + 1, Len(list))

HistoryKept == 5

\* analyze_agent_response whose buffer keeps the five oldest entries.
AnalyzeKeepsOldest(hist, id, text, t) ==
    [history |-> [hist EXCEPT ![id] = SubSeq(Append(@, <<text, t>>), 1, Min(Len(@) + 1, HistoryKept))],
     ret |-> IF _has_completion_pattern(text) /\ ~_has_workflow_management(text)
             THEN _create_forgotten_completion_alert(id, t)
             ELSE None]

\* analyze_agent_response: the history afterwards and the value returned.
analyze_agent_response(hist, id, text, t) ==
    [history |-> [hist EXCEPT ![id] = LastN(Append(@, <<text, t>>), HistoryKept)],
     ret |-> IF _has_completion_pattern(text) /\ ~_has_workflow_management(text)
             THEN _create_forgotten_completion_alert(id, t)
             ELSE None]

----------------------------------------------------------------------------
(* SpecText: one monitor process analysing responses, for a session that is  *)
(* in the store (s1, where it was started) or is not                         *)

ReadyText ==
    <<"That", "completes", "the", "implementation", "The", "system", "is", "ready">>

ManagedText ==
    <<"That", "completes", "the", "task", "I", "ll", "use", "advance_workflow", "to", "move", "to", "the", "next", "step">>

WorkingText ==
    <<"I", "m", "working", "on", "implementing", "the", "feature">>

ResponseTexts == {ReadyText, ManagedText, WorkingText}

InitTextStore ==
    \/ active = EmptyDir
    \/ active = _save_session(EmptyDir,
                    create("s1", "p", workflow_steps(_plan_execution_order(<<"git">>), 1), None, 0))

InitAnalysis ==
    /\ now = 0
    /\ op = "init"
    /\ result = None
    /\ InitSession
    /\ InitTextStore
    /\ archive = EmptyDir
    /\ arg = None
    /\ ticks = 0
    /\ InitText

\* monitor.analyze_agent_response(session_id, response), for a response out of
\* texts and at most max calls
AnalyzeFrom(texts, max) ==
    /\ response.n < max
    /\ \E id \in SessionIds, text \in texts :
            LET r == analyze_agent_response(history, id, text, now)
            IN  /\ history' = r.history
                /\ result' = r.ret
                /\ arg' = id
                /\ response' = [session_id |-> id, text |-> text, n |-> response.n + 1]
    /\ op' = "analyze_agent_response"
    /\ UNCHANGED <<now, ticks, active, archive, sessionVars, calls>>

DoAnalyzeAgentResponse == AnalyzeFrom(ResponseTexts, MaxResponses)

NextText == DoAnalyzeAgentResponse

SpecText == InitAnalysis /\ [][NextText]_vars

----------------------------------------------------------------------------
(* Claims about the response analysis (SpecText) *)

\* C33: after every analyze_agent_response call the buffer of the session id
\* it was called for holds at most 5 entries: the response just analysed, at
\* the end, after the most recent ones that were there, in the order they
\* came; the buffers of the other ids are as they were.
C33_RollingBuffer ==
    [][op' = "analyze_agent_response" =>
        LET old == history[arg']
            new == history'[arg']
        IN  /\ Len(new) = Min(Len(old) + 1, 5)
            /\ new[Len(new)] = <<response'.text, now'>>
            /\ \A k \in 1..Len(new) - 1 : new[Len(new) - k] = old[Len(old) - k + 1]
            /\ \A id \in SessionIds \ {arg'} : history'[id] = history[id]
    ]_vars

\* The sixth response for one session id was analysed: its buffer holds five
\* entries, not all of one text, and the other id's buffer is empty.
C33_Witness ==
    /\ op = "analyze_agent_response"
    /\ response.n = 6
    /\ Len(history[arg]) = 5
    /\ history[arg][1][1] # history[arg][5][1]
    /\ \A id \in SessionIds \ {arg} : history[id] = <<>>

\* C10: analyze_agent_response returns a forgotten_completion alert of
\* severity high iff the current text matches a completion pattern and no
\* workflow-management keyword, and None otherwise, whatever the buffer holds
\* and whether or not the session exists: an alert for "That completes the
\* implementation. The system is ready.", none for "That completes the task.
\* I'll use advance_workflow to move to the next step.".
C10_AlertFromCurrentTextOnly ==
    op = "analyze_agent_response" =>
        /\ result # None <=>
                (_has_completion_pattern(response.text) /\ ~_has_workflow_management(response.text))
        /\ result # None =>
                /\ result.alert_type = "forgotten_completion"
                /\ result.severity = "high"
                /\ result.session_id = response.session_id
        /\ response.text = ReadyText => result # None
        /\ response.text = ManagedText => result = None

\* The alert is given for a session that is not in the store, after the
\* buffer of that id has seen a response that managed the workflow.
C10_Witness ==
    /\ op = "analyze_agent_response"
    /\ result # None
    /\ response.text = ReadyText
    /\ ~Exists(active, response.session_id)
    /\ \E i \in 1..Len(history[response.session_id]) :
            history[response.session_id][i][1] = ManagedText

----------------------------------------------------------------------------
(* SpecPhrases: the monitor analysing the responses its tests are written    *)
(* with                                                                      *)

MaxPhrased == 2     \* SpecPhrases: responses analysed in one process

TaskText ==
    <<"That", "completes", "the", "task", "Everything", "is", "working", "perfectly", "now">>

ConcludesText ==
    <<"This", "concludes", "our", "work", "on", "the", "feature">>

ContinueText ==
    <<"Let", "s", "continue", "with", "the", "next", "step">>

SummaryText ==
    <<"In", "summary", "the", "project", "is", "now", "ready", "for", "deployment">>

FinalText ==
    <<"Final", "step", "the", "tests", "are", "passing", "and", "everything", "looks", "good">>

PhrasedTexts == {TaskText, ConcludesText, ContinueText, SummaryText, FinalText}

DoAnalyzePhrasedResponse == AnalyzeFrom(PhrasedTexts, MaxPhrased)

NextPhrases == DoAnalyzePhrasedResponse

SpecPhrases == InitAnalysis /\ [][NextPhrases]_vars

\* C11: the phrasings "that completes", "this concludes", "in summary" and
\* "final" are recognised by _has_completion_pattern, so "That completes the
\* task. Everything is working perfectly now." and "This concludes our work on
\* the feature." each get a forgotten_completion alert from
\* analyze_agent_response, and "Let's continue with the next step." is not
\* recognised as a completion pattern.
C11_CompletionPhrasings ==
    op = "analyze_agent_response" =>
        /\ response.text \in {TaskText, ConcludesText} =>
                /\ _has_completion_pattern(response.text)
                /\ result # None
        /\ response.text \in {SummaryText, FinalText} => _has_completion_pattern(response.text)
        /\ response.text = ContinueText => ~_has_completion_pattern(response.text)

----------------------------------------------------------------------------
(* Spec: one WorkflowSession, built by create() at time 0, and the calls a   *)
(* caller makes on it.  Every call reads the clock once.                     *)

Init ==
    /\ now = 0
    /\ \E ws \in SeqsUpTo(Catalogue, MaxInit), cfg \in ConfigInputs :
            /\ initial = [workflows |-> ws, session_config |-> cfg]
            /\ session = create("s1", "p", ws, cfg, 0)
    /\ op = "create"
    /\ result = None
    /\ pure = TRUE
    /\ advLog = <<>>
    /\ InitIdle

\* The run is no longer one of advance_step() calls only.
Forget ==
    /\ pure' = FALSE
    /\ initial' = None
    /\ advLog' = <<>>

\* Time passes between two calls.
Tick ==
    /\ now < MaxTime
    /\ now' = now + 1
    /\ op' = "tick"
    /\ result' = None
    /\ UNCHANGED <<sessionVars, storeVars, textVars>>

\* session.get_current_step()
DoGetCurrentStep ==
    /\ op' = "get_current_step"
    /\ result' = get_current_step(session)
    /\ UNCHANGED <<now, sessionVars, storeVars, textVars>>

\* session.is_complete
DoIsComplete ==
    /\ op' = "is_complete"
    /\ result' = is_complete(session)
    /\ UNCHANGED <<now, sessionVars, storeVars, textVars>>

\* session.advance_step()
DoAdvanceStep ==
    LET r == advance_step(session, now)
    IN  /\ session' = r.session
        /\ op' = "advance_step"
        /\ result' = r.ret
        /\ pure' = pure
        /\ advLog' = IF pure /\ HasCurrentFrame(session)
                     THEN Append(advLog, [ret |-> r.ret, step |-> get_current_step(r.session),
                                          is_complete |-> is_complete(r.session),
                                          depth |-> Len(r.session.workflow_stack)])
                     ELSE advLog
        /\ UNCHANGED <<now, initial, storeVars, textVars>>

\* session.back_step()
DoBackStep ==
    LET r == back_step(session, now)
    IN  /\ session' = r.session
        /\ op' = "back_step"
        /\ result' = r.ret
        /\ Forget
        /\ UNCHANGED <<now, storeVars, textVars>>

\* session.restart_session()
DoRestartSession ==
    LET r == restart_session(session, now)
    IN  /\ session' = r.session
        /\ op' = "restart_session"
        /\ result' = r.ret
        /\ Forget
        /\ UNCHANGED <<now, storeVars, textVars>>

\* session.break_workflow()
DoBreakWorkflow ==
    LET r == break_workflow(session, now)
    IN  /\ session' = r.session
        /\ op' = "break_workflow"
        /\ result' = r.ret
        /\ Forget
        /\ UNCHANGED <<now, storeVars, textVars>>

\* session.push_workflow(name, steps, context)
DoPushWorkflow ==
    /\ Len(session.workflow_stack) < MaxDepth
    /\ \E w \in Catalogue, ctx \in ContextInputs :
            session' = push_workflow(session, w[1], w[2], ctx, now).session
    /\ op' = "push_workflow"
    /\ result' = None
    /\ Forget
    /\ UNCHANGED <<now, storeVars, textVars>>

Next ==
    \/ Tick
    \/ DoGetCurrentStep
    \/ DoIsComplete
    \/ DoAdvanceStep
    \/ DoBackStep
    \/ DoRestartSession
    \/ DoBreakWorkflow
    \/ DoPushWorkflow

Spec == Init /\ [][Next]_vars

----------------------------------------------------------------------------
(* Claims about one WorkflowSession (Spec) *)

Stack == session.workflow_stack

\* A get_current_step() result that reports step k of n of workflow w, with the
\* undecorated text.
StepIs(info, w, k, n, text) ==
    /\ info # None
    /\ info.workflow = w
    /\ info.step_number = k
    /\ info.total_steps = n
    /\ info.step_text = <<text>>

ScenarioWorkflows ==
    << <<"A", << <<"a1">>, <<"a2">> >> >>, <<"B", << <<"b1">> >> >> >>

\* A run of advance_step() calls on the session created from
\* [("A", [a1, a2]), ("B", [b1])] with step decoration disabled.
InScenario ==
    /\ pure
    /\ initial = [workflows |-> ScenarioWorkflows,
                  session_config |-> SessionConfig(FALSE, FALSE)]

\* C1: in the scenario the first get_current_step() reports A 1/2 "a1"; the
\* 1st advance_step() returns true and leaves A 2/2 "a2"; the 2nd returns true,
\* pops A and leaves B 1/1; the 3rd returns false with the stack empty.
C1_ScenarioTrace ==
    InScenario =>
        /\ Len(advLog) = 0 => StepIs(get_current_step(session), "A", 1, 2, <<"a1">>)
        /\ Len(advLog) >= 1 =>
                /\ advLog[1].ret = TRUE
                /\ StepIs(advLog[1].step, "A", 2, 2, <<"a2">>)
        /\ Len(advLog) >= 2 =>
                /\ advLog[2].ret = TRUE
                /\ advLog[2].depth = 1
                /\ StepIs(advLog[2].step, "B", 1, 1, <<"b1">>)
        /\ Len(advLog) >= 3 =>
                /\ advLog[3].ret = FALSE
                /\ advLog[3].depth = 0

\* A run of advance_step() calls on a session created from one workflow.
SingleWorkflowRun == pure /\ Len(initial.workflows) = 1

StepCount == Len(initial.workflows[1][2])

\* C2: a single-workflow session with N steps is complete, with no current
\* step, after exactly N advance_step() calls, and is neither before the N-th.
C2_CompleteAfterNAdvances ==
    SingleWorkflowRun =>
        /\ Len(advLog) = StepCount =>
                /\ is_complete(session)
                /\ get_current_step(session) = None
        /\ Len(advLog) < StepCount =>
                /\ ~is_complete(session)
                /\ get_current_step(session) # None

C2_Witness ==
    /\ SingleWorkflowRun
    /\ StepCount = 2
    /\ Len(advLog) = 2
    /\ op = "advance_step"

\* Frames 1..n of two stacks are the same frames.
SameFrames(st1, st2, n) == \A i \in 1..n : st1[i] = st2[i]

\* C4: advance_step() on a non-empty stack moves the cursor of an incomplete
\* top frame by exactly 1, changing no other frame, and returns true; on a
\* complete top frame it pops exactly that frame, changes no cursor, and
\* returns true iff a frame is left.
C4_AdvanceStepEffect ==
    [][(op' = "advance_step" /\ Len(Stack) > 0) =>
        LET n == Len(Stack)
        IN  IF Stack[n].current_step < Len(Stack[n].steps)
            THEN /\ Len(Stack') = n
                 /\ SameFrames(Stack, Stack', n - 1)
                 /\ Stack'[n] = [Stack[n] EXCEPT !.current_step = Stack[n].current_step + 1]
                 /\ result' = TRUE
            ELSE /\ Len(Stack') = n - 1
                 /\ SameFrames(Stack, Stack', n - 1)
                 /\ result' = (Len(Stack') > 0)
                 /\ result' = FALSE <=> Len(Stack') = 0
    ]_vars

\* advance_step() has just popped a complete frame and resumed in its parent.
C4_Witness ==
    /\ op = "advance_step"
    /\ result = TRUE
    /\ pure
    /\ Len(advLog) >= 2
    /\ advLog[Len(advLog)].depth = 1
    /\ advLog[Len(advLog) - 1].depth = 2

\* C5: break_workflow() on a stack of depth 0 or 1 returns false and leaves the
\* whole session unchanged; on depth >= 2 it returns true and removes exactly
\* the top frame, the others unchanged and in order.
C5_BreakWorkflowEffect ==
    [][op' = "break_workflow" =>
        IF Len(Stack) <= 1
        THEN /\ result' = FALSE
             /\ session' = session
        ELSE /\ result' = TRUE
             /\ Len(Stack') = Len(Stack) - 1
             /\ SameFrames(Stack, Stack', Len(Stack) - 1)
             /\ Len(Stack') >= 1
    ]_vars

C5_Witness ==
    /\ op = "break_workflow"
    /\ result = TRUE
    /\ Len(Stack) = 1
    /\ Stack[1].current_step > 0

\* C6: back_step() with the top cursor at 0, or no frame, returns false and
\* changes nothing, last_accessed included; with the top cursor above 0 it
\* returns true and decrements that cursor by exactly 1.  Either way the stack
\* length and every other frame stay as they were.
C6_BackStepEffect ==
    [][op' = "back_step" =>
        LET n == Len(Stack)
        IN  /\ Len(Stack') = n
            /\ SameFrames(Stack, Stack', n - 1)
            /\ IF n = 0 \/ Stack[n].current_step = 0
               THEN /\ result' = FALSE
                    /\ session' = session
               ELSE /\ result' = TRUE
                    /\ Stack'[n] = [Stack[n] EXCEPT !.current_step = Stack[n].current_step - 1]
    ]_vars

\* back_step() was refused some time after the session was last touched.
C6_Witness ==
    /\ op = "back_step"
    /\ result = FALSE
    /\ Len(Stack) = 2
    /\ Stack[1].current_step > 0
    /\ session.last_accessed < now

\* C7: restart_session() leaves every frame at current_step 0 and keeps the
\* number of frames, their order, names and step lists.
C7_RestartEffect ==
    [][op' = "restart_session" =>
        /\ Len(Stack') = Len(Stack)
        /\ \A i \in 1..Len(Stack) :
                /\ Stack'[i].current_step = 0
                /\ Stack'[i].workflow_name = Stack[i].workflow_name
                /\ Stack'[i].steps = Stack[i].steps
    ]_vars

C7_Witness ==
    /\ op = "restart_session"
    /\ Len(Stack) = 2
    /\ Len(Stack[1].steps) > 0
    /\ Len(Stack[2].steps) > 0

\* C13: in every state reachable from create() by advance_step, back_step,
\* restart_session, break_workflow and push_workflow, every frame on the stack
\* has 0 <= current_step <= len(steps), and its is_complete is true exactly
\* when current_step = len(steps).
C13_CursorInvariant ==
    \A i \in 1..Len(Stack) :
        /\ 0 <= Stack[i].current_step
        /\ Stack[i].current_step <= Len(Stack[i].steps)
        /\ WorkflowFrame_is_complete(Stack[i]) <=> Stack[i].current_step = Len(Stack[i].steps)

\* advance_step() has just moved the top frame onto its end, above a frame
\* that is at its end too.
C13_Witness ==
    /\ op = "advance_step"
    /\ result = TRUE
    /\ Len(Stack) = 2
    /\ Len(Stack[1].steps) = 2
    /\ Stack[1].current_step = 2
    /\ Len(Stack[2].steps) = 1
    /\ Stack[2].current_step = 1

----------------------------------------------------------------------------
(* SpecAccess: a caller holding the session that create_session() made and   *)
(* saved, next to the orchestrator reading and advancing the saved document  *)

\* The entries of list_sessions for the ids in glob order; prompts are
\* shorter than the 100 characters after which they are cut.
RECURSIVE SessionSummaries(_, _)
SessionSummaries(act, ids) ==
    IF ids = <<>> THEN <<>>
    ELSE LET s == load_session(act, Head(ids))
         IN  (IF s = None THEN <<>>
              ELSE <<[session_id |-> s.session_id,
                      prompt |-> s.prompt,
                      workflow_stack |-> StackNames(s),
                      is_complete |-> is_complete(s),
                      created_at |-> isoformat(s.created_at),
                      last_accessed |-> isoformat(s.last_accessed)]>>)
             \o SessionSummaries(act, Tail(ids))

\* orchestrator.list_sessions()
list_sessions ==
    /\ \E ids \in Orderings(list_active_sessions(active)) :
            result' = IF \E i \in 1..Len(ids) : IsRaise(load_session(active, ids[i]))
                      THEN Failure(<<"Failed to list sessions">>)
                      ELSE [success |-> TRUE, sessions |-> SessionSummaries(active, ids)]
    /\ op' = "list_sessions"
    /\ arg' = None
    /\ UNCHANGED <<now, ticks, active, archive, sessionVars, textVars>>

\* session_manager.create_session(prompt, workflows), that is create() and
\* _save_session() on an empty directory, at time 0; the calls come later.
InitAccess ==
    /\ now = MaxTime
    /\ op = "create_session"
    /\ result = None
    /\ \E ws \in [1..1 -> Catalogue] :
            /\ session = create("s1", "p", ws, None, 0)
            /\ active = _save_session(EmptyDir, session)
    /\ initial = None
    /\ pure = FALSE
    /\ advLog = <<>>
    /\ archive = EmptyDir
    /\ arg = None
    /\ ticks = 0
    /\ InitText

\* The caller nests a workflow only directly inside the initial one.
DoPushNested ==
    /\ Len(session.workflow_stack) = 1
    /\ DoPushWorkflow

NextAccess ==
    \/ DoGetCurrentStep
    \/ DoIsComplete
    \/ DoAdvanceStep
    \/ DoBackStep
    \/ DoRestartSession
    \/ DoBreakWorkflow
    \/ DoPushNested
    \/ get_session_status
    \/ list_sessions
    \/ advance_session

SpecAccess == InitAccess /\ [][NextAccess]_vars

----------------------------------------------------------------------------
(* SessionMonitor and SessionManager: intervention messages and summaries *)

\* The empty string: a text of no lines.
EmptyMessage == <<>>

\* _format_completion_reminder: the lines of the template that carry text of
\* the session or name the template.
_format_completion_reminder(s, current_step) ==
    <<[line |-> "Workflow Management Reminder"],
      [line |-> "step_info",
       step_info |-> IF current_step = None THEN <<>>
                     ELSE <<[step_number |-> current_step.step_number,
                             of |-> Len(current_frame(s).steps),
                             workflow |-> current_step.workflow]>>],
      [line |-> "Session ID", session_id |-> s.session_id]>>

\* _format_dormant_reminder
_format_dormant_reminder(s, current_step) ==
    <<[line |-> "Active Workflow Session Detected"],
      [line |-> "Session", session_id |-> s.session_id],
      [line |-> "Workflow",
       workflow |-> IF HasCurrentFrame(s) THEN current_frame(s).workflow_name
                    ELSE "Unknown"],
      [line |-> "step_info",
       step_info |-> IF current_step = None THEN <<>>
                     ELSE <<current_step.step_text>>]>>

\* _format_stale_reminder
_format_stale_reminder(s, current_step) ==
    <<[line |-> "Stale Workflow Session"],
      [line |-> "Session", session_id |-> s.session_id],
      [line |-> "Note", hours |-> max_session_age_hours]>>

AlertTypes == {"forgotten_completion", "dormant_session", "stale_session", "auto_archive"}

\* generate_intervention_message that answers an auto_archive alert with the
\* stale reminder.
GenerateInterventionMessageForAll(act, alert) ==
    LET s == load_session(act, alert.session_id)
    IN  IF IsRaise(s) THEN s
        ELSE IF s = None THEN EmptyMessage
        ELSE IF alert.alert_type = "forgotten_completion"
        THEN _format_completion_reminder(s, get_current_step(s))
        ELSE IF alert.alert_type = "dormant_session"
        THEN _format_dormant_reminder(s, get_current_step(s))
        ELSE _format_stale_reminder(s, get_current_step(s))

\* generate_intervention_message(alert) over the session directory act; an
\* exception that load_session lets through leaves the call.
generate_intervention_message(act, alert) ==
    LET s == load_session(act, alert.session_id)
    IN  IF IsRaise(s) THEN s
        ELSE IF s = None THEN EmptyMessage
        ELSE IF alert.alert_type = "forgotten_completion"
        THEN _format_completion_reminder(s, get_current_step(s))
        ELSE IF alert.alert_type = "dormant_session"
        THEN _format_dormant_reminder(s, get_current_step(s))
        ELSE IF alert.alert_type = "stale_session"
        THEN _format_stale_reminder(s, get_current_step(s))
        ELSE EmptyMessage

\* The number of alerts of one type in a list of alerts.
CountType(alerts, type) ==
    Cardinality({i \in 1..Len(alerts) : alerts[i].alert_type = type})

\* One entry of the summary's session_details.
SessionDetail(s) ==
    [session_id |-> s.session_id,
     created_at |-> isoformat(s.created_at),
     last_accessed |-> isoformat(s.last_accessed),
     current_workflow |-> IF HasCurrentFrame(s) THEN current_frame(s).workflow_name
                          ELSE "None",
     current_step |-> IF HasCurrentFrame(s) THEN current_frame(s).current_step ELSE -1,
     total_steps |-> IF HasCurrentFrame(s) THEN Len(current_frame(s).steps) ELSE 0,
     is_complete |-> is_complete(s)]

\* get_session_status_summary: ids is the list _get_active_sessions gives,
\* both times it is called.
get_session_status_summary(act, ids, t) ==
    LET alerts == check_session_health(act, ids, t)
    IN  [total_active_sessions |-> Len(ids),
         dormant_sessions |-> CountType(alerts, "dormant_session"),
         stale_sessions |-> CountType(alerts, "stale_session"),
         forgotten_completions |-> CountType(alerts, "forgotten_completion"),
         alerts |-> [i \in 1..Len(alerts) |->
                        [session_id |-> alerts[i].session_id,
                         type |-> alerts[i].alert_type,
                         severity |-> alerts[i].severity,
                         message |-> alerts[i].message,
                         timestamp |-> isoformat(alerts[i].timestamp)]],
         session_details |-> [i \in 1..Len(ids) |-> SessionDetail(load_session(act, ids[i]))]]

\* One entry of the health summary's lists.
session_info(s, id, t) ==
    [session_id |-> id,
     inactive_minutes |-> t - s.last_accessed,
     current_workflow |-> IF HasCurrentFrame(s) THEN current_frame(s).workflow_name
                          ELSE "None",
     is_complete |-> is_complete(s),
     created_at |-> isoformat(s.created_at),
     last_accessed |-> isoformat(s.last_accessed)]

\* get_session_health_summary that lists a stale session as dormant too.
GetSessionHealthSummaryBoth(act, ids, t) ==
    LET loaded == SelectSeq(ids, LAMBDA id : load_session(act, id) # None)
        infos == [i \in 1..Len(loaded) |-> session_info(load_session(act, loaded[i]), loaded[i], t)]
        dormant == SelectSeq(infos, LAMBDA x : x.inactive_minutes > 10)
        stale == SelectSeq(infos, LAMBDA x : x.inactive_minutes > 30)
    IN  [total_active |-> Len(infos),
         total_dormant |-> Len(dormant),
         total_stale |-> Len(stale),
         active_sessions |-> infos,
         dormant_sessions |-> dormant,
         stale_sessions |-> stale,
         timestamp |-> isoformat(t)]

\* SessionManager.get_session_health_summary; ids is the list that
\* list_active_sessions gives.
get_session_health_summary(act, ids, t) ==
    LET loaded == SelectSeq(ids, LAMBDA id : load_session(act, id) # None)
        infos == [i \in 1..Len(loaded) |-> session_info(load_session(act, loaded[i]), loaded[i], t)]
        stale == SelectSeq(infos, LAMBDA x : x.inactive_minutes > 30)
        dormant == SelectSeq(infos, LAMBDA x : ~(x.inactive_minutes > 30) /\ x.inactive_minutes > 10)
    IN  [total_active |-> Len(infos),
         total_dormant |-> Len(dormant),
         total_stale |-> Len(stale),
         active_sessions |-> infos,
         dormant_sessions |-> dormant,
         stale_sessions |-> stale,
         timestamp |-> isoformat(t)]

\* An alert as a caller hands it over; the monitor reads its session_id and
\* alert_type only.
SessionAlert(id, type, t) ==
    [session_id |-> id,
     alert_type |-> type,
     message |-> <<"Test alert">>,
     severity |-> "high",
     timestamp |-> t]

\* generate_intervention_message that counts as an access: it saves the session
\* it loaded, with last_accessed moved to the time of the call.
GenerateInterventionMessageTouches ==
    /\ \E id \in SessionIds, type \in AlertTypes :
            LET s == load_session(active, id)
            IN  /\ result' = generate_intervention_message(active, SessionAlert(id, type, now))
                /\ arg' = SessionAlert(id, type, now)
                /\ active' = IF s = None THEN active
                              ELSE _save_session(active, [s EXCEPT !.last_accessed = now])
    /\ op' = "generate_intervention_message"
    /\ UNCHANGED <<now, ticks, archive, sessionVars, textVars>>

\* monitor.generate_intervention_message(alert)
DoGenerateInterventionMessage ==
    /\ \E id \in SessionIds, type \in AlertTypes :
            /\ result' = generate_intervention_message(active, SessionAlert(id, type, now))
            /\ arg' = SessionAlert(id, type, now)
    /\ op' = "generate_intervention_message"
    /\ UNCHANGED <<now, ticks, active, archive, sessionVars, textVars>>

\* monitor.get_session_status_summary(); the call is taken to read one clock
\* value.
DoGetSessionStatusSummary ==
    /\ \E ids \in Orderings(_get_active_sessions(active)) :
            result' = get_session_status_summary(active, ids, now)
    /\ op' = "get_session_status_summary"
    /\ arg' = None
    /\ UNCHANGED <<now, ticks, active, archive, sessionVars, textVars>>

\* session_manager.get_session_health_summary()
DoGetSessionHealthSummary ==
    /\ \E ids \in Orderings(list_active_sessions(active)) :
            result' = get_session_health_summary(active, ids, now)
    /\ op' = "get_session_health_summary"
    /\ arg' = None
    /\ UNCHANGED <<now, ticks, active, archive, sessionVars, textVars>>

----------------------------------------------------------------------------
(* SpecReport: two-step sessions that are started, advanced and cut short on *)
(* disk while the clock moves, under the monitor's reporting calls           *)

\* Sessions are started before the clock is moved.
ReportStartSession == ticks = 0 /\ StartSessionFrom({<<"analysis">>})

\* The clock moves by a minute, by the stale threshold or by the maximum age.
ReportSteps == {1, stale_threshold_minutes, max_session_age_hours * 60}

ReportTick ==
    /\ ticks < MaxTicks
    /\ \E d \in ReportSteps : now' = now + d
    /\ ticks' = ticks + 1
    /\ op' = "tick"
    /\ arg' = None
    /\ result' = None
    /\ UNCHANGED <<active, archive, sessionVars, textVars>>

\* A session file is cut short by an interrupted write: its text is no JSON.
DoTruncateFile == CorruptFrom(SoundFiles, {InvalidJson})

NextReport ==
    \/ ReportTick
    \/ ReportStartSession
    \/ advance_session
    \/ DoTruncateFile
    \/ DoCheckSessionHealth
    \/ DoGenerateInterventionMessage
    \/ DoGetSessionStatusSummary
    \/ DoGetSessionHealthSummary

SpecReport == InitStore /\ [][NextReport]_vars
\* C32: push_workflow(name, steps, context) appends one frame with
\* current_step 0 as the new top, leaves every frame that was there as it was
\* and where it was, and sets last_accessed to the time of the call; right
\* afterwards get_current_step() is null if the pushed steps are empty and
\* otherwise the pushed workflow at step 1, one level deeper; and a later pop
\* (break_workflow, or advance_step past the end) leaves the frames below,
\* the parent's cursor included, as they were.
C32_PushWorkflowEffect ==
    [][/\ op' = "push_workflow" =>
            LET old == session.workflow_stack
                new == session'.workflow_stack
                top == new[Len(new)]
                step == get_current_step(session')
            IN  /\ Len(new) = Len(old) + 1
                /\ \A i \in 1..Len(old) : new[i] = old[i]
                /\ top.current_step = 0
                /\ <<top.workflow_name, top.steps>> \in Catalogue
                /\ session'.last_accessed = now'
                /\ IF top.steps = <<>> THEN step = None
                   ELSE /\ step # None
                        /\ step.workflow = top.workflow_name
                        /\ step.step_number = 1
                        /\ step.workflow_depth = Len(old) + 1
       /\ (/\ op' \in {"break_workflow", "advance_step"}
           /\ Len(session'.workflow_stack) < Len(session.workflow_stack)) =>
            /\ Len(session'.workflow_stack) = Len(session.workflow_stack) - 1
            /\ \A i \in 1..Len(session'.workflow_stack) :
                    session'.workflow_stack[i] = session.workflow_stack[i]
    ]_vars

\* A two-step workflow was pushed onto a parent that stands at its second
\* step, later than the session was last accessed before.
C32_Witness ==
    /\ op = "push_workflow"
    /\ Len(session.workflow_stack) = 2
    /\ session.workflow_stack[1].current_step = 1
    /\ Len(session.workflow_stack[2].steps) = 2
    /\ session.workflow_stack[2].current_step = 0
    /\ session.last_accessed = now
    /\ session.created_at < now

\* C24: get_current_step() returns null iff the stack is empty or its last
\* frame is complete; otherwise it describes the last frame of the stack:
\* workflow is its name, step_number its current_step + 1, which lies in
\* 1..total_steps, total_steps the length of its steps, and workflow_depth
\* the length of the stack.
C24_GetCurrentStep ==
    op = "get_current_step" =>
        LET st == session.workflow_stack
            top == st[Len(st)]
        IN  IF st = <<>> THEN result = None
            ELSE IF top.current_step >= Len(top.steps) THEN result = None
            ELSE /\ result # None
                 /\ result.workflow = top.workflow_name
                 /\ result.step_number = top.current_step + 1
                 /\ 1 <= result.step_number /\ result.step_number <= result.total_steps
                 /\ result.total_steps = Len(top.steps)
                 /\ result.workflow_depth = Len(st)

\* The step of a nested workflow was described while the outer workflow,
\* of another name, stands at another step.
C24_Witness ==
    /\ op = "get_current_step"
    /\ Len(session.workflow_stack) = 2
    /\ result # None
    /\ session.workflow_stack[1].workflow_name # session.workflow_stack[2].workflow_name
    /\ session.workflow_stack[1].current_step # session.workflow_stack[2].current_step
    /\ result.step_number = 2

----------------------------------------------------------------------------
(* Claims about the summaries, the messages and the age alert (SpecReport) *)

\* The ids listed in one of the health summary's lists.
ListedIn(infos) == {infos[i].session_id : i \in 1..Len(infos)}

\* C22: at one instant, a session of the active directory that is not
\* complete is in get_session_health_summary()'s dormant_sessions iff
\* check_session_health() gives a dormant_session alert for it, and in
\* stale_sessions iff it gives a stale_session alert for it; total_dormant and
\* total_stale are the numbers of those alerts.
C22_SummaryMatchesAlerts ==
    op = "get_session_health_summary" =>
        \A ids \in Orderings(_get_active_sessions(active)) :
            LET alerts == check_session_health(active, ids, now)
            IN  /\ \A id \in _get_active_sessions(active) :
                        /\ id \in ListedIn(result.dormant_sessions)
                                <=> AlertsOf(alerts, id, "dormant_session") # {}
                        /\ id \in ListedIn(result.stale_sessions)
                                <=> AlertsOf(alerts, id, "stale_session") # {}
                /\ result.total_dormant = CountType(alerts, "dormant_session")
                /\ result.total_stale = CountType(alerts, "stale_session")

\* C25: get_session_status_summary() has one session_details entry, with the
\* completion flag, for every session of the active directory,
\* total_active_sessions is the number of those sessions, and
\* dormant_sessions and stale_sessions are the numbers of dormant_session and
\* stale_session alerts of check_session_health() at that instant.
C25_StatusSummary ==
    op = "get_session_status_summary" =>
        /\ Len(result.session_details) = Cardinality(SoundFiles)
        /\ {result.session_details[i].session_id : i \in 1..Len(result.session_details)}
                = SoundFiles
        /\ \A i \in 1..Len(result.session_details) :
                result.session_details[i].is_complete
                    = is_complete(load_session(active, result.session_details[i].session_id))
        /\ result.total_active_sessions = Cardinality(SoundFiles)
        /\ \A ids \in Orderings(_get_active_sessions(active)) :
                LET alerts == check_session_health(active, ids, now)
                IN  /\ result.dormant_sessions = CountType(alerts, "dormant_session")
                    /\ result.stale_sessions = CountType(alerts, "stale_session")

\* C26: generate_intervention_message(alert) gives, for an alert of any of
\* the four types whose session loads, a text that is not empty, is the text
\* of no other alert type and carries the session id; it gives the empty
\* string when the session does not load (no file, archived, or damaged).
C26_InterventionMessage ==
    op = "generate_intervention_message" =>
        IF load_session(active, arg.session_id) = None
        THEN result = EmptyMessage
        ELSE /\ result # EmptyMessage
             /\ \E i \in 1..Len(result) :
                    /\ "session_id" \in DOMAIN result[i]
                    /\ result[i].session_id = arg.session_id
             /\ \A type \in AlertTypes \ {arg.alert_type} :
                    result # generate_intervention_message(active,
                                    SessionAlert(arg.session_id, type, now))

\* C28: check_session_health() gives a session of the active directory that
\* is not complete one auto_archive alert, of severity low, iff
\* now - created_at is more than six hours, whatever its last_accessed; a
\* session that is complete gets no alert of any type.
C28_AutoArchiveAlert ==
    op = "check_session_health" =>
        \A id \in SoundFiles :
            LET s == load_session(active, id)
                old == AlertsOf(result, id, "auto_archive")
            IN  IF is_complete(s)
                THEN \A i \in 1..Len(result) : result[i].session_id # id
                ELSE /\ Cardinality(old)
                            = IF now - s.created_at > max_session_age_hours * 60 THEN 1 ELSE 0
                     /\ \A i \in old : result[i].severity = "low"

\* A health check whose only alert for a session is the auto_archive alert:
\* the session is older than six hours and was accessed at the time of the
\* check, while a session that is complete is in the directory too.
C28_Witness ==
    /\ op = "check_session_health"
    /\ \E id \in _get_active_sessions(active) :
            /\ load_session(active, id).last_accessed = now
            /\ AlertsOf(result, id, "auto_archive") # {}
            /\ AlertsOf(result, id, "dormant_session") = {}
    /\ \E id \in SoundFiles : is_complete(load_session(active, id))

----------------------------------------------------------------------------
(* SpecReadOnly: one session in the store and every reporting call of the    *)
(* monitor and of the session manager, the analysis of a response included   *)

MaxAnalyzed == 1

InitReadOnly ==
    /\ now = 0
    /\ op = "init"
    /\ result = None
    /\ InitSession
    /\ active = _save_session(EmptyDir,
                    create("s1", "p", workflow_steps(_plan_execution_order(<<"analysis">>), 1), None, 0))
    /\ archive = EmptyDir
    /\ arg = None
    /\ ticks = 0
    /\ InitText

ReadOnlyAnalyzeAgentResponse == AnalyzeFrom({ReadyText}, MaxAnalyzed)

NextReadOnly ==
    \/ ReportTick
    \/ advance_session
    \/ DoTruncateFile
    \/ DoCheckSessionHealth
    \/ ReadOnlyAnalyzeAgentResponse
    \/ DoGenerateInterventionMessage
    \/ DoGetSessionStatusSummary
    \/ DoGetSessionHealthSummary

SpecReadOnly == InitReadOnly /\ [][NextReadOnly]_vars

----------------------------------------------------------------------------
(* Claims about the reporting calls and the store (SpecReadOnly) *)

ReportingCalls ==
    {"check_session_health", "analyze_agent_response", "generate_intervention_message",
     "get_session_status_summary", "get_session_health_summary"}

\* C21: check_session_health, analyze_agent_response,
\* generate_intervention_message, get_session_status_summary and the session
\* manager's get_session_health_summary leave the store as it was: the same
\* active documents, the same archived documents, and every document with the
\* content it had, last_accessed included.
C21_ReportingIsReadOnly ==
    [][op' \in ReportingCalls =>
        \A id \in SessionIds : active'[id] = active[id] /\ archive'[id] = archive[id]
    ]_vars

\* A health check that gave all three alerts for a session that is still in
\* the active directory, last accessed before the call.
C21_Witness ==
    /\ op = "check_session_health"
    /\ Len(result) = 3
    /\ Exists(active, result[1].session_id)
    /\ load_session(active, result[1].session_id).last_accessed < now

----------------------------------------------------------------------------
(* SpecRace: two invocations of advance_session run side by side against one *)
(* store; each is two steps, load_session and then the rest of the handler   *)

Calls == {1, 2}

\* What the analyzer answered for the session that is in the store.
RaceOutputs == {<<"analysis">>, <<"git">>, <<"git", "analysis">>}

InitRace ==
    /\ now = 0
    /\ op = "init"
    /\ result = None
    /\ InitSession
    /\ \E names \in RaceOutputs :
            active = _save_session(EmptyDir,
                        create("s1", "p", workflow_steps(_plan_execution_order(names), 1), None, 0))
    /\ archive = EmptyDir
    /\ arg = None
    /\ ticks = 0
    /\ history = [id \in SessionIds |-> <<>>]
    /\ response = [n |-> 0]
    /\ calls = [c \in Calls |-> [pc |-> "idle"]]

\* advance_session(session_id) up to the return of load_session: the
\* invocation holds the session it read, or returns not found.
LoadStep(c) ==
    /\ calls[c].pc = "idle"
    /\ \E id \in SessionIds :
            LET s == load_session(active, id)
            IN  /\ calls' = [calls EXCEPT ![c] =
                                IF s = None
                                THEN [pc |-> "done", session_id |-> id, result |-> NotFound(id)]
                                ELSE [pc |-> "loaded", session_id |-> id, loaded |-> s]]
                /\ arg' = id
                /\ result' = s
    /\ op' = "load_session"
    /\ UNCHANGED <<now, ticks, active, archive, sessionVars, history, response>>

\* The rest of advance_session, were it to read the document again before
\* it advances and saves.
AdvanceSaveReloads(c) ==
    /\ calls[c].pc = "loaded"
    /\ LET id == calls[c].session_id
           s == load_session(active, id)
           r == advance_step(s, now)
           res == IF s = None THEN NotFound(id)
                  ELSE IF r.ret
                  THEN [success |-> TRUE,
                        session_id |-> id,
                        current_step |-> get_current_step(r.session),
                        workflow_stack |-> StackNames(r.session),
                        has_next |-> TRUE]
                  ELSE [success |-> TRUE,
                        session_id |-> id,
                        current_step |-> None,
                        workflow_stack |-> <<>>,
                        has_next |-> FALSE]
       IN  /\ IF s = None
              THEN UNCHANGED <<active, archive>>
              ELSE IF r.ret
              THEN /\ active' = _save_session(active, r.session)
                   /\ UNCHANGED archive
              ELSE /\ active' = archive_session(active, archive, id).active
                   /\ archive' = archive_session(active, archive, id).archive
           /\ calls' = [calls EXCEPT ![c] =
                           [pc |-> "done", session_id |-> id, loaded |-> calls[c].loaded,
                            result |-> res]]
           /\ arg' = id
           /\ result' = res
    /\ op' = "advance_session"
    /\ UNCHANGED <<now, ticks, sessionVars, history, response>>

\* The rest of advance_session: advance_step on the session held in memory,
\* then save_session or archive_session, then the return.
AdvanceSaveStep(c) ==
    /\ calls[c].pc = "loaded"
    /\ LET id == calls[c].session_id
           s == calls[c].loaded
           r == advance_step(s, now)
           res == IF r.ret
                  THEN [success |-> TRUE,
                        session_id |-> id,
                        current_step |-> get_current_step(r.session),
                        workflow_stack |-> StackNames(r.session),
                        has_next |-> TRUE]
                  ELSE [success |-> TRUE,
                        session_id |-> id,
                        current_step |-> None,
                        workflow_stack |-> <<>>,
                        has_next |-> FALSE]
       IN  /\ IF r.ret
              THEN /\ active' = _save_session(active, r.session)
                   /\ UNCHANGED archive
              ELSE /\ active' = archive_session(active, archive, id).active
                   /\ archive' = archive_session(active, archive, id).archive
           /\ calls' = [calls EXCEPT ![c] =
                           [pc |-> "done", session_id |-> id, loaded |-> s, result |-> res]]
           /\ arg' = id
           /\ result' = res
    /\ op' = "advance_session"
    /\ UNCHANGED <<now, ticks, sessionVars, history, response>>

\* Time passes between two steps.
RaceTick ==
    /\ now < MaxTime
    /\ now' = now + 1
    /\ op' = "tick"
    /\ arg' = None
    /\ result' = None
    /\ UNCHANGED <<active, archive, ticks, sessionVars, textVars>>

NextRace ==
    \/ RaceTick
    \/ \E c \in Calls : LoadStep(c)
    \/ \E c \in Calls : AdvanceSaveStep(c)

SpecRace == InitRace /\ [][NextRace]_vars

----------------------------------------------------------------------------
(* Claims about interleaved invocations (SpecRace) *)

\* The invocation has returned a result with has_next true.
ReturnedNext(c) ==
    /\ calls[c].pc = "done"
    /\ "has_next" \in DOMAIN calls[c].result
    /\ calls[c].result.has_next

\* Two invocations on one id that both read the document before either
\* wrote it, and both returned has_next true.
Interleaved(c, d) ==
    /\ c # d
    /\ ReturnedNext(c)
    /\ ReturnedNext(d)
    /\ calls[c].session_id = calls[d].session_id
    /\ calls[c].loaded = calls[d].loaded

\* C23: when two advance_session invocations on one session id interleave so
\* that both load before either saves, both report success, and the document
\* left in the store is the loaded one advanced once, the later writer's: one
\* of the two updates is lost.
C23_LostUpdate ==
    \A c, d \in Calls :
        Interleaved(c, d) =>
            /\ calls[c].result.success
            /\ calls[d].result.success
            /\ active[calls[c].session_id]
                    \in {to_dict(advance_step(calls[c].loaded, t).session) : t \in 0..now}

\* Both invocations loaded the two-step workflow at its first step and
\* returned success; the stored cursor stands at 1, not at 2.
C23_Witness ==
    /\ Interleaved(1, 2)
    /\ calls[1].result.success
    /\ calls[2].result.success
    /\ LET before == current_frame(calls[1].loaded)
           after == current_frame(load_session(active, calls[1].session_id))
       IN  /\ Len(before.steps) = 2
           /\ before.current_step = 0
           /\ after.current_step = 1

----------------------------------------------------------------------------
(* SpecArchive: the orchestrator's session calls and the monitor's health    *)
(* check and cleanup, one after the other, while the clock runs for hours    *)

ArchiveStartSession == StartSessionFrom({<<"git">>})

NextArchive ==
    \/ ReportTick
    \/ ArchiveStartSession
    \/ get_session_status
    \/ advance_session
    \/ break_session
    \/ back_session
    \/ orchestrator_restart_session
    \/ DoCheckSessionHealth
    \/ DoCleanupStaleSessions

SpecArchive == InitStore /\ [][NextArchive]_vars

\* C27: once a session id is in the archive, its archived document never
\* changes, the id is never in the active directory again, and every later
\* get_session_status, advance_session, back_session, break_session and
\* restart_session on that id reports not found.
C27_ArchivedIsFinal ==
    [][\A id \in SessionIds :
        /\ Exists(archive', id) => ~Exists(active', id)
        /\ Exists(archive, id) =>
                /\ archive'[id] = archive[id]
                /\ (op' \in SessionCalls /\ arg' = id) => result' = NotFound(id)
    ]_vars

\* A session that was archived with a step still to do was asked to advance,
\* which reported not found, while the other session, archived complete, is
\* in the archive as well.
C27_Witness ==
    /\ op = "advance_session"
    /\ result = NotFound(arg)
    /\ Exists(archive, arg)
    /\ ~is_complete(load_session(archive, arg))
    /\ \E other \in SessionIds \ {arg} :
            /\ Exists(archive, other)
            /\ is_complete(load_session(archive, other))

----------------------------------------------------------------------------
(* SpecLife: one session from its creation on, under the orchestrator's      *)
(* session calls; initial keeps the session as it was created                *)

InitLife ==
    /\ now = 0
    /\ op = "init"
    /\ result = None
    /\ session = None
    /\ pure = FALSE
    /\ advLog = <<>>
    /\ \E names \in RaceOutputs :
            LET s == create("s1", "p", workflow_steps(_plan_execution_order(names), 1), None, 0)
            IN  /\ active = _save_session(EmptyDir, s)
                /\ initial = s
    /\ archive = EmptyDir
    /\ arg = None
    /\ ticks = 0
    /\ InitText

NextLife ==
    \/ StoreTick
    \/ get_session_status
    \/ advance_session
    \/ break_session
    \/ back_session
    \/ orchestrator_restart_session

SpecLife == InitLife /\ [][NextLife]_vars

----------------------------------------------------------------------------
(* Claims about a session's life under the orchestrator (SpecLife) *)

\* C31: after restart_session on a session that is still active, whatever
\* advance, back and break calls came before, the workflow stack (frames,
\* order, cursors all 0) and get_current_step() are those the session had
\* right after creation.
C31_RestartRestoresCreation ==
    (op = "restart_session" /\ result.success) =>
        /\ load_session(active, arg).workflow_stack = initial.workflow_stack
        /\ result.current_step = get_current_step(initial)

\* The stored stack of the session, where the session is active.
StoredStack(id) == load_session(active, id).workflow_stack

\* The frames of `stack` are, by name and steps, the first frames of `whole`.
IsFramePrefix(stack, whole) ==
    /\ Len(stack) <= Len(whole)
    /\ \A i \in 1..Len(stack) :
          /\ stack[i].workflow_name = whole[i].workflow_name
          /\ stack[i].steps = whole[i].steps

\* C36: under the orchestrator's calls the stack of an active session is, by
\* the frames' names and steps, the first k frames of the stack the session
\* was created with; no call makes the stack longer and none changes the
\* steps of a frame that stays.
C36_StackIsPrefix ==
    /\ [](Exists(active, "s1") => IsFramePrefix(StoredStack("s1"), initial.workflow_stack))
    /\ [][(Exists(active, "s1") /\ Exists(active', "s1")) =>
            LET old == StoredStack("s1")
                new == load_session(active', "s1").workflow_stack
            IN  /\ Len(new) <= Len(old)
                /\ \A i \in 1..Len(new) : new[i].steps = old[i].steps
       ]_vars

\* break_session has taken the upper frame off a session created with two:
\* the stored stack is the first frame of the initial stack.
C36_Witness ==
    /\ op = "break_session"
    /\ result.success
    /\ Exists(active, "s1")
    /\ Len(initial.workflow_stack) = 2
    /\ Len(StoredStack("s1")) = 1
    /\ initial.workflow_stack[1].workflow_name # initial.workflow_stack[2].workflow_name

----------------------------------------------------------------------------
(* SpecAge: one session created at time 0, a clock that runs past the        *)
(* maximum age, the orchestrator's calls, a push on the stored session and   *)
(* the monitor's cleanup                                                     *)

\* The clock moves by a minute or by the maximum age.
AgeTick ==
    /\ ticks < MaxTicks
    /\ \E d \in {1, max_session_age_hours * 60} : now' = now + d
    /\ ticks' = ticks + 1
    /\ op' = "tick"
    /\ arg' = None
    /\ result' = None
    /\ UNCHANGED <<active, archive, sessionVars, textVars>>

\* load_session, push_workflow and save_session by a user of the library.
DoPushStored ==
    \E id \in SessionIds, w \in {<<"git", WorkflowRegistry.git>>} :
        LET s == load_session(active, id)
        IN  /\ s # None
            /\ Len(s.workflow_stack) < MaxDepth
            /\ active' = _save_session(active, push_workflow(s, w[1], w[2], None, now).session)
            /\ op' = "push_workflow"
            /\ arg' = id
            /\ result' = None
            /\ UNCHANGED <<now, ticks, archive, sessionVars, textVars>>

NextAge ==
    \/ AgeTick
    \/ advance_session
    \/ back_session
    \/ break_session
    \/ orchestrator_restart_session
    \/ DoPushStored
    \/ DoCleanupStaleSessions

SpecAge == InitLife /\ [][NextAge]_vars

\* C37: created_at is the time of creation whatever advance, back, break,
\* restart, push, save and load did since, created_at <= last_accessed holds
\* and last_accessed never decreases; a session more than 6 hours past its
\* creation is an auto-archive candidate, restarted or not, and
\* cleanup_stale_sessions archives it.
C37_AgeIsFromCreation ==
    /\ [](Exists(active, "s1") =>
            LET s == load_session(active, "s1")
            IN  /\ s.created_at = initial.created_at
                /\ s.created_at <= s.last_accessed
                /\ (now - initial.created_at > max_session_age_hours * 60
                        => _should_auto_archive(s, now)))
    /\ [][/\ (Exists(active, "s1") /\ Exists(active', "s1")) =>
                load_session(active', "s1").last_accessed
                    >= load_session(active, "s1").last_accessed
          /\ (/\ op' = "cleanup_stale_sessions"
              /\ "s1" \in _get_active_sessions(active)
              /\ now - initial.created_at > max_session_age_hours * 60) =>
                (~Exists(active', "s1") /\ Exists(archive', "s1"))
       ]_vars

\* restart_session has just succeeded on a session more than 6 hours old:
\* last_accessed is the time of the restart, created_at is still the time of
\* creation and the session is an auto-archive candidate.
C37_Witness ==
    /\ op = "restart_session"
    /\ result.success
    /\ now > max_session_age_hours * 60
    /\ load_session(active, "s1").last_accessed = now
    /\ load_session(active, "s1").created_at = 0
    /\ _should_auto_archive(load_session(active, "s1"), now)

----------------------------------------------------------------------------
(* SpecAdvance: a session anywhere in a two-level stack, and from then on    *)
(* nothing but advance_session, called again and again                       *)

InitAdvance ==
    /\ now = MaxTime
    /\ op = "init"
    /\ result = None
    /\ InitSession
    /\ \E p \in StackedParams : active = _save_session(EmptyDir, StackedSession(p))
    /\ archive = EmptyDir
    /\ arg = "s1"    \* the id the caller holds
    /\ ticks = 0
    /\ InitText

NextAdvance == advance_session

\* The caller keeps calling advance_session for the session as long as a call
\* still changes what is stored.
SpecAdvance ==
    InitAdvance /\ [][NextAdvance]_vars /\ WF_<<active, archive>>(advance_session)

\* C34: when nothing but advance_session(id) is called, again and again, one
\* call returns has_next false after finitely many calls and the session is
\* archived then; every call before it returns has_next true and leaves the
\* session active, and no call after it succeeds.
C34_AdvanceTerminates ==
    /\ <>(~Exists(active, "s1") /\ Exists(archive, "s1"))
    /\ [][(op' = "advance_session" /\ arg' = "s1") =>
            IF Exists(active, "s1")
            THEN /\ result'.success
                 /\ result'.has_next <=> Exists(active', "s1")
                 /\ ~result'.has_next => Exists(archive', "s1")
            ELSE /\ ~result'.success
                 /\ UNCHANGED <<active, archive>>
       ]_vars

\* The call that ended the session: has_next is false and the document, moved
\* as it was last saved with its final frame, is in the archive.
C34_Witness ==
    /\ op = "advance_session"
    /\ result.success
    /\ ~result.has_next
    /\ ~Exists(active, "s1")
    /\ Len(load_session(archive, "s1").workflow_stack) = 1

----------------------------------------------------------------------------
(* SpecEnd: two invocations of advance_session, back_session or              *)
(* restart_session side by side on a session at or near its end; each loads, *)
(* then runs the rest of its handler, and archive_session is its existence   *)
(* check followed, in a later step, by its rename                            *)

InitEnd ==
    /\ now = 0
    /\ op = "init"
    /\ result = None
    /\ InitSession
    /\ \E names \in RaceOutputs, k \in 0..1 :
            LET s0 == create("s1", "p", workflow_steps(_plan_execution_order(names), 1), None, 0)
                s == IF k = 0 THEN s0 ELSE advance_step(s0, 0).session
            IN  active = _save_session(EmptyDir, s)
    /\ archive = EmptyDir
    /\ arg = None
    /\ ticks = 0
    /\ history = [id \in SessionIds |-> <<>>]
    /\ response = [n |-> 0]
    /\ calls = [c \in Calls |-> [pc |-> "idle"]]

\* What advance_session returns once the session has ended.
AllCompleted(id) ==
    [success |-> TRUE,
     session_id |-> id,
     current_step |-> None,
     workflow_stack |-> <<>>,
     has_next |-> FALSE]

\* advance_session after load_session: advance_step on the session held in
\* memory, then save_session and the return, or archive_session up to the
\* answer of session_file.exists().
EndAdvanceStep(c) ==
    /\ calls[c].pc = "loaded"
    /\ LET id == calls[c].session_id
           s == calls[c].loaded
           r == advance_step(s, now)
           res == [success |-> TRUE,
                   session_id |-> id,
                   current_step |-> get_current_step(r.session),
                   workflow_stack |-> StackNames(r.session),
                   has_next |-> TRUE]
       IN  /\ IF r.ret
              THEN /\ active' = _save_session(active, r.session)
                   /\ calls' = [calls EXCEPT ![c] =
                                   [pc |-> "done", session_id |-> id, result |-> res]]
                   /\ result' = res
              ELSE IF Exists(active, id)
              THEN /\ calls' = [calls EXCEPT ![c] = [pc |-> "renaming", session_id |-> id]]
                   /\ result' = None
                   /\ UNCHANGED active
              ELSE /\ calls' = [calls EXCEPT ![c] =
                                   [pc |-> "done", session_id |-> id,
                                    result |-> AllCompleted(id)]]
                   /\ result' = AllCompleted(id)
                   /\ UNCHANGED active
           /\ arg' = id
    /\ op' = "advance_session"
    /\ UNCHANGED <<now, ticks, archive, sessionVars, history, response>>

\* archive_session from session_file.rename(archive_file) on, and the return
\* of advance_session; rename raises FileNotFoundError when the file has
\* gone since exists() was asked, and advance_session catches nothing.
RenameStep(c) ==
    /\ calls[c].pc = "renaming"
    /\ LET id == calls[c].session_id
           r == archive_session(active, archive, id)
           res == IF Exists(active, id) THEN AllCompleted(id)
                  ELSE Raises("FileNotFoundError")
       IN  /\ active' = r.active
           /\ archive' = r.archive
           /\ calls' = [calls EXCEPT ![c] =
                           [pc |-> "done", session_id |-> id, result |-> res]]
           /\ arg' = id
           /\ result' = res
    /\ op' = "archive_session"
    /\ UNCHANGED <<now, ticks, sessionVars, history, response>>

\* back_session after load_session: back_step, then save_session where it
\* went back, and the return.
BackSaveStep(c) ==
    /\ calls[c].pc = "loaded"
    /\ LET id == calls[c].session_id
           r == back_step(calls[c].loaded, now)
           res == IF r.ret
                  THEN [success |-> TRUE,
                        session_id |-> id,
                        current_step |-> get_current_step(r.session),
                        workflow_stack |-> StackNames(r.session)]
                  ELSE [success |-> FALSE,
                        error |-> <<"Cannot go back - already at first step">>,
                        session_id |-> id]
       IN  /\ active' = IF r.ret THEN _save_session(active, r.session) ELSE active
           /\ calls' = [calls EXCEPT ![c] =
                           [pc |-> "done", session_id |-> id, result |-> res]]
           /\ arg' = id
           /\ result' = res
    /\ op' = "back_session"
    /\ UNCHANGED <<now, ticks, archive, sessionVars, history, response>>

\* restart_session after load_session: restart, save_session and the return.
RestartSaveStep(c) ==
    /\ calls[c].pc = "loaded"
    /\ LET id == calls[c].session_id
           r == restart_session(calls[c].loaded, now)
           res == [success |-> TRUE,
                   session_id |-> id,
                   current_step |-> get_current_step(r.session),
                   workflow_stack |-> StackNames(r.session)]
       IN  /\ active' = _save_session(active, r.session)
           /\ calls' = [calls EXCEPT ![c] =
                           [pc |-> "done", session_id |-> id, result |-> res]]
           /\ arg' = id
           /\ result' = res
    /\ op' = "restart_session"
    /\ UNCHANGED <<now, ticks, archive, sessionVars, history, response>>

NextEnd ==
    \/ \E c \in Calls : LoadStep(c)
    \/ \E c \in Calls : EndAdvanceStep(c)
    \/ \E c \in Calls : RenameStep(c)
    \/ \E c \in Calls : BackSaveStep(c)
    \/ \E c \in Calls : RestartSaveStep(c)

SpecEnd == InitEnd /\ [][NextEnd]_vars

----------------------------------------------------------------------------
(* Claims about invocations that race at the end of a session (SpecEnd) *)

\* C39: however two invocations on one session id interleave, the id is
\* never in the active and the archive directory at once, and an id that is
\* in the archive never comes back into the active directory.
C39_PartitionsDisjoint ==
    /\ [](\A id \in SessionIds : ~(Exists(active, id) /\ Exists(archive, id)))
    /\ [][\A id \in SessionIds : Exists(archive, id) => ~Exists(active', id)]_vars

\* C40: however two invocations that end one session interleave, each
\* returns a result record and none ends in an exception: the one that
\* loses the race gets false from archive_session.
C40_NoUnhandledError ==
    \A c \in Calls : calls[c].pc = "done" => ~IsRaise(calls[c].result)

============================================================================
